---- MODULE Spec2Model ----
(***************************************************************************)
(* sr (ShowReverse): bulk reverse-DNS lookups over CIDR blocks.            *)
(*                                                                         *)
(* The model covers address arithmetic, the CIDR enumerator (cidr.go),     *)
(* the minimal CIDR cover (cidr.go), the consolidator (output.go) and the  *)
(* worker pool with the collector loop of run (lookup.go, main.go).        *)
(*                                                                         *)
(* Scaling.  An address is a sequence of bytes, as net.IP is.  To keep the *)
(* address space enumerable a byte has ByteBits bits (Go: 8), an IPv4      *)
(* address has IPv4len bytes (Go: 4), an IPv6 address IPv6len bytes        *)
(* (Go: 16) and an unsigned machine word has WordBits bits (Go: 64).  The  *)
(* relations the code depends on are kept: IPv4 bits < WordBits <= IPv6    *)
(* bits, so every IPv4 block is countable and short IPv6 prefixes are not. *)
(***************************************************************************)
EXTENDS Integers, Sequences, FiniteSets, TLC

\* ----------------------------------------------------- scale and bounds
ByteBits == 2
IPv4len == 2
CoverSpan == 9

ByteMod == 2 ^ ByteBits
ByteMax == ByteMod - 1
IPv6len == IPv4len + 2
WordBits == (IPv4len * ByteBits) + 2
WordMod == 2 ^ WordBits

\* ------------------------------------------------------- generic helpers
Min(a, b) == IF a < b THEN a ELSE b

Range(s) == {s[i] : i \in 1..Len(s)}

RECURSIVE Concat(_)
Concat(ss) == IF ss = <<>> THEN <<>> ELSE Head(ss) \o Concat(Tail(ss))

\* bitwise AND of two bytes
RECURSIVE BitAnd(_, _)
BitAnd(a, b) ==
    IF a = 0 \/ b = 0 THEN 0
    ELSE ((a % 2) * (b % 2)) + 2 * BitAnd(a \div 2, b \div 2)

\* ---------------------------------------------------- net.IP, net.IPMask
Zeros(n) == [i \in 1..n |-> 0]

\* big-endian value of an address (used by the properties, not by the code)
RECURSIVE ToInt(_)
ToInt(ip) ==
    IF ip = <<>> THEN 0
    ELSE ToInt(SubSeq(ip, 1, Len(ip) - 1)) * ByteMod + ip[Len(ip)]

RECURSIVE FromInt(_, _)
FromInt(v, n) ==
    IF n = 0 THEN <<>> ELSE Append(FromInt(v \div ByteMod, n - 1), v % ByteMod)

\* the 12-byte prefix of an IPv4-mapped IPv6 address: zeros, then two 0xff
v4InV6Prefix == [i \in 1..(IPv6len - IPv4len) |->
                    IF i > IPv6len - IPv4len - 1 THEN ByteMax ELSE 0]

\* net.IP.To4: the 4-byte form, or <<>> (nil) when ip is not an IPv4 address
To4(ip) ==
    IF Len(ip) = IPv4len THEN ip
    ELSE IF Len(ip) = IPv6len
            /\ SubSeq(ip, 1, IPv6len - IPv4len) = v4InV6Prefix
         THEN SubSeq(ip, IPv6len - IPv4len + 1, IPv6len)
         ELSE <<>>

\* net.IP.Equal: an IPv4 address and its IPv4-mapped IPv6 form are equal
IPEqual(x, y) ==
    IF Len(x) = Len(y) THEN x = y
    ELSE IF Len(x) = IPv4len /\ Len(y) = IPv6len THEN To4(y) = x
    ELSE IF Len(x) = IPv6len /\ Len(y) = IPv4len THEN To4(x) = y
    ELSE FALSE

\* bytes.Compare(a, b) < 0: lexicographic, a proper prefix is smaller
RECURSIVE BytesLess(_, _)
BytesLess(a, b) ==
    IF b = <<>> THEN FALSE
    ELSE IF a = <<>> THEN TRUE
    ELSE IF Head(a) # Head(b) THEN Head(a) < Head(b)
    ELSE BytesLess(Tail(a), Tail(b))

\* net.CIDRMask(ones, bits): the top `ones` bits set
CIDRMask(ones, bits) ==
    [i \in 1..(bits \div ByteBits) |->
        LET n == IF ones - (i - 1) * ByteBits < 0 THEN 0
                 ELSE Min(ones - (i - 1) * ByteBits, ByteBits)
        IN  ByteMod - 2 ^ (ByteBits - n)]

\* number of leading one bits of a mask byte
RECURSIVE ByteOnes(_, _)
ByteOnes(b, k) ==
    IF k = 0 THEN 0
    ELSE IF b \div 2 ^ (k - 1) = 1 THEN 1 + ByteOnes(b % 2 ^ (k - 1), k - 1)
    ELSE 0

\* net.IPMask.Size: <<ones, bits>> of a canonical mask
RECURSIVE MaskOnes(_)
MaskOnes(m) ==
    IF m = <<>> THEN 0
    ELSE IF Head(m) = ByteMax THEN ByteBits + MaskOnes(Tail(m))
    ELSE ByteOnes(Head(m), ByteBits)

MaskSize(m) == <<MaskOnes(m), Len(m) * ByteBits>>

\* net.IP.Mask for an address and a mask of the same length
MaskIP(ip, m) == [i \in 1..Len(ip) |-> BitAnd(ip[i], m[i])]

\* ------------------------------------------------------------- cidr.go
\* incIP: add one in place with carry, wrapping to all-zeros
RECURSIVE IncAt(_, _)
IncAt(ip, j) ==
    IF j = 0 THEN ip
    ELSE LET v == (ip[j] + 1) % ByteMod
         IN  IF v > 0 THEN [ip EXCEPT ![j] = v]
             ELSE IncAt([ip EXCEPT ![j] = v], j - 1)

incIP(ip) == IncAt(ip, Len(ip))

\* the inner loop of trailingZeroBits: trailing zero bits of a non-zero byte
RECURSIVE ByteTrailingZeros(_)
ByteTrailingZeros(b) ==
    IF b % 2 = 0 THEN 1 + ByteTrailingZeros(b \div 2) ELSE 0

RECURSIVE TrailingZeroBitsFrom(_)
TrailingZeroBitsFrom(ip) ==
    IF ip = <<>> THEN 0
    ELSE IF ip[Len(ip)] = 0
         THEN ByteBits + TrailingZeroBitsFrom(SubSeq(ip, 1, Len(ip) - 1))
         ELSE ByteTrailingZeros(ip[Len(ip)])

\* mutant: the count of the last non-zero byte is off by one
trailingZeroBits_OffByOne(ip) ==
    IF TrailingZeroBitsFrom(ip) = Len(ip) * ByteBits
    THEN TrailingZeroBitsFrom(ip)
    ELSE TrailingZeroBitsFrom(ip) + 1

trailingZeroBits(ip) == TrailingZeroBitsFrom(ip)

\* findContiguousRuns: split a sorted list where incIP(prev) differs from next
RECURSIVE RunsFrom(_, _, _)
RunsFrom(s, start, i) ==
    IF i > Len(s) THEN <<SubSeq(s, start, Len(s))>>
    ELSE IF ~IPEqual(incIP(s[i - 1]), s[i])
         THEN <<SubSeq(s, start, i - 1)>> \o RunsFrom(s, i, i + 1)
         ELSE RunsFrom(s, start, i + 1)

findContiguousRuns(sortedIPs) ==
    IF Len(sortedIPs) = 0 THEN <<>> ELSE RunsFrom(sortedIPs, 1, 2)

\* the loop "for blockBits < alignment && (1<<(blockBits+1)) <= remaining"
RECURSIVE BlockBitsStrict(_, _, _)
BlockBitsStrict(blockBits, alignment, remaining) ==
    IF blockBits < alignment /\ 2 ^ (blockBits + 1) < remaining
    THEN BlockBitsStrict(blockBits + 1, alignment, remaining)
    ELSE blockBits

RECURSIVE BlockBitsLoop(_, _, _)
BlockBitsLoop(blockBits, alignment, remaining) ==
    IF blockBits < alignment /\ 2 ^ (blockBits + 1) <= remaining
    THEN BlockBitsLoop(blockBits + 1, alignment, remaining)
    ELSE blockBits

\* mutant: "<" instead of "<=" against the remaining addresses
BlockBits_Strict(alignment, remaining) ==
    BlockBitsStrict(0, alignment, remaining)

BlockBits(alignment, remaining) == BlockBitsLoop(0, alignment, remaining)

\* ContiguousIPsToNetworks: greedy, largest aligned block that fits
RECURSIVE CoverFrom(_, _, _)
CoverFrom(ips, pos, totalBits) ==
    IF pos > Len(ips) THEN <<>>
    ELSE LET remaining == Len(ips) - pos + 1
             alignment == trailingZeroBits(ips[pos])
             blockBits == BlockBits(alignment, remaining)
         IN  <<[IP |-> ips[pos],
                Mask |-> CIDRMask(totalBits - blockBits, totalBits)]>>
             \o CoverFrom(ips, pos + 2 ^ blockBits, totalBits)

ContiguousIPsToNetworks(ips) ==
    IF Len(ips) = 0 THEN <<>>
    ELSE CoverFrom(ips, 1, Len(ips[1]) * ByteBits)

\* IPsToNetworks: cover each contiguous run on its own
IPsToNetworks(sortedIPs) ==
    LET runs == findContiguousRuns(sortedIPs)
    IN  Concat([i \in 1..Len(runs) |-> ContiguousIPsToNetworks(runs[i])])

\* sort.Slice with bytes.Compare on a duplicate-free set of addresses
RECURSIVE SortIPs(_)
SortIPs(S) ==
    IF S = {} THEN <<>>
    ELSE LET m == CHOOSE x \in S : \A y \in S \ {x} : BytesLess(x, y)
         IN  <<m>> \o SortIPs(S \ {m})

\* net.IP.To16 of an IPv4 address
To16(ip) == IF Len(ip) = IPv4len THEN v4InV6Prefix \o ip ELSE ip

\* net.IP.Mask(mask), with its conversions between 4- and 16-byte forms;
\* <<>> is nil
IPMask(ip, mask) ==
    LET m == IF Len(mask) = IPv6len /\ Len(ip) = IPv4len
                /\ \A i \in 1..(IPv6len - IPv4len) : mask[i] = ByteMax
             THEN SubSeq(mask, IPv6len - IPv4len + 1, IPv6len) ELSE mask
        x == IF Len(m) = IPv4len /\ Len(ip) = IPv6len
                /\ SubSeq(ip, 1, IPv6len - IPv4len) = v4InV6Prefix
             THEN SubSeq(ip, IPv6len - IPv4len + 1, IPv6len) ELSE ip
    IN  IF Len(x) # Len(m) THEN <<>> ELSE MaskIP(x, m)

\* net.networkNumberAndMask
NetworkNumber(n) == IF To4(n.IP) # <<>> THEN To4(n.IP) ELSE n.IP

NetworkMask(n) ==
    IF Len(n.Mask) = IPv6len /\ Len(NetworkNumber(n)) = IPv4len
    THEN SubSeq(n.Mask, IPv6len - IPv4len + 1, IPv6len)
    ELSE n.Mask

\* net.IPNet.Contains
\* mutant: the network number itself is not counted as contained
Contains_NotBase(n, ip) ==
    LET nn == NetworkNumber(n)
        m == NetworkMask(n)
        x == IF To4(ip) # <<>> THEN To4(ip) ELSE ip
    IN  /\ Len(x) = Len(nn)
        /\ Len(m) = Len(nn)
        /\ x # nn
        /\ \A i \in 1..Len(x) : BitAnd(nn[i], m[i]) = BitAnd(x[i], m[i])

Contains(n, ip) ==
    LET nn == NetworkNumber(n)
        m == NetworkMask(n)
        x == IF To4(ip) # <<>> THEN To4(ip) ELSE ip
    IN  /\ Len(x) = Len(nn)
        /\ Len(m) = Len(nn)
        /\ \A i \in 1..Len(x) : BitAnd(nn[i], m[i]) = BitAnd(x[i], m[i])

\* A CIDR argument is [valid, ip, ones]: the address as written (IPv4len or
\* IPv6len bytes) and the prefix length; valid = FALSE is a malformed string.
\* net.ParseCIDR: the address in 16-byte form and the network
ParseCIDRip(cidr) == To16(cidr.ip)

ParseCIDRnet(cidr) ==
    LET m == CIDRMask(cidr.ones, Len(cidr.ip) * ByteBits)
    IN  [IP |-> IPMask(To16(cidr.ip), m), Mask |-> m]

SentinelSize == WordMod - 1

\* CIDRSize of a valid CIDR
CIDRSize(cidr) ==
    LET ones == MaskSize(ParseCIDRnet(cidr).Mask)[1]
        bits == MaskSize(ParseCIDRnet(cidr).Mask)[2]
        hostBits == bits - ones
    IN  IF hostBits >= WordBits THEN SentinelSize ELSE 2 ^ hostBits

\* runtime.makeslice panics when the capacity is beyond the allocator limit
MaxSliceCap == WordMod \div 2

\* "allocCap = 65536": two bytes' worth of addresses
DefaultAllocCap == 2 ^ (2 * ByteBits)

\* mutant: the first pass does not stop at a malformed CIDR
RECURSIVE FirstPassFrom_NoCheck(_, _, _, _)
FirstPassFrom_NoCheck(cs, i, totalSize, hasHugeRange) ==
    IF i > Len(cs)
    THEN [err |-> FALSE, totalSize |-> totalSize, hasHugeRange |-> hasHugeRange]
    ELSE IF ~cs[i].valid
    THEN FirstPassFrom_NoCheck(cs, i + 1, totalSize, hasHugeRange)
    ELSE IF CIDRSize(cs[i]) = SentinelSize
    THEN FirstPassFrom_NoCheck(cs, i + 1, totalSize, TRUE)
    ELSE FirstPassFrom_NoCheck(cs, i + 1,
                               (totalSize + CIDRSize(cs[i])) % WordMod,
                               hasHugeRange)

\* ParseCIDRs, first pass: [err, totalSize, hasHugeRange] after cidrs[i..]
RECURSIVE FirstPassFrom(_, _, _, _)
FirstPassFrom(cs, i, totalSize, hasHugeRange) ==
    IF i > Len(cs)
    THEN [err |-> FALSE, totalSize |-> totalSize, hasHugeRange |-> hasHugeRange]
    ELSE IF ~cs[i].valid
    THEN [err |-> TRUE, totalSize |-> totalSize, hasHugeRange |-> hasHugeRange]
    ELSE LET size == CIDRSize(cs[i])
             newTotal == (totalSize + size) % WordMod
         IN  IF size = SentinelSize
             THEN FirstPassFrom(cs, i + 1, totalSize, TRUE)
             ELSE IF hasHugeRange
             THEN FirstPassFrom(cs, i + 1, totalSize, hasHugeRange)
             ELSE IF newTotal < totalSize
             THEN FirstPassFrom(cs, i + 1, totalSize, TRUE)
             ELSE FirstPassFrom(cs, i + 1, newTotal, hasHugeRange)

\* "Determine allocation capacity"
AllocCap(total, huge, max) ==
    IF huge \/ (max > 0 /\ total > max)
    THEN IF max > 0 THEN max ELSE DefaultAllocCap
    ELSE total

\* ExpandCIDR: "Determine allocation size"
AllocSize(size, max) ==
    IF max > 0 /\ (size = SentinelSize \/ size > max) THEN max ELSE size

\* ----------------------------------------------------------- output.go
\* A name is a sequence of one-character strings; <<>> is the empty string.
\* A LookupResult is [IP, PTR, Error]; Error = "" is the nil error.
Digits == <<"0", "1", "2", "3", "4", "5", "6", "7", "8", "9">>

\* fmt.Sprintf("%d", n)
RECURSIVE Itoa(_)
Itoa(n) ==
    IF n < 10 THEN <<Digits[n + 1]>>
    ELSE Itoa(n \div 10) \o <<Digits[(n % 10) + 1]>>

HasPrefix(s, p) == Len(s) >= Len(p) /\ SubSeq(s, 1, Len(p)) = p

HasSuffix(s, p) ==
    Len(s) >= Len(p) /\ SubSeq(s, Len(s) - Len(p) + 1, Len(s)) = p

ContainsDot(s) == \E i \in 1..Len(s) : s[i] = "."

\* strings.IndexByte(s, '.'), 1-based; 0 when there is none
IndexDot(s) ==
    IF ContainsDot(s)
    THEN CHOOSE i \in 1..Len(s) :
            s[i] = "." /\ \A j \in 1..(i - 1) : s[j] # "."
    ELSE 0

\* the octets joined by sep: a.b.c.d or a-b-c-d
RECURSIVE JoinOctets(_, _)
JoinOctets(octs, sep) ==
    IF Len(octs) = 0 THEN <<>>
    ELSE IF Len(octs) = 1 THEN Itoa(octs[1])
    ELSE Itoa(octs[1]) \o <<sep>> \o JoinOctets(Tail(octs), sep)

Reverse(s) == [i \in 1..Len(s) |-> s[Len(s) + 1 - i]]

\* mutant: the dash forms accept a suffix of a single label
DashPattern_AnySuffix(ip4, ptr) ==
    LET dot == IndexDot(ptr)
        firstLabel == SubSeq(ptr, 1, dot - 1)
        suffix == SubSeq(ptr, dot + 1, Len(ptr))
        fwdDashes == JoinOctets(ip4, "-")
        revDashes == JoinOctets(Reverse(ip4), "-")
    IN  IF dot = 0 THEN <<>>
        ELSE IF firstLabel = fwdDashes THEN <<"*", ".">> \o suffix
        ELSE IF firstLabel = revDashes THEN <<"*", ".">> \o suffix
        ELSE IF HasSuffix(firstLabel, <<"-">> \o fwdDashes)
             THEN <<"*", ".">> \o suffix
        ELSE IF HasSuffix(firstLabel, <<"-">> \o revDashes)
             THEN <<"*", ".">> \o suffix
        ELSE <<>>

\* the dash forms, tried on the first label once the suffix has two labels
DashPattern(ip4, ptr) ==
    LET dot == IndexDot(ptr)
        firstLabel == SubSeq(ptr, 1, dot - 1)
        suffix == SubSeq(ptr, dot + 1, Len(ptr))
        fwdDashes == JoinOctets(ip4, "-")
        revDashes == JoinOctets(Reverse(ip4), "-")
    IN  IF dot = 0 THEN <<>>
        ELSE IF ~ContainsDot(suffix) THEN <<>>
        ELSE IF firstLabel = fwdDashes THEN <<"*", ".">> \o suffix
        ELSE IF firstLabel = revDashes THEN <<"*", ".">> \o suffix
        ELSE IF HasSuffix(firstLabel, <<"-">> \o fwdDashes)
             THEN <<"*", ".">> \o suffix
        ELSE IF HasSuffix(firstLabel, <<"-">> \o revDashes)
             THEN <<"*", ".">> \o suffix
        ELSE <<>>

\* mutant: the reversed dotted form is not tried
extractPTRPattern_NoReverse(ip, ptr) ==
    LET ip4 == To4(ip)
        fwdDots == JoinOctets(ip4, ".") \o <<".">>
    IN  IF ip4 = <<>> \/ ptr = <<>> THEN <<>>
        ELSE IF HasPrefix(ptr, fwdDots)
             THEN LET suffix == SubSeq(ptr, Len(fwdDots) + 1, Len(ptr))
                  IN  IF ContainsDot(suffix) THEN <<"*", ".">> \o suffix
                      ELSE <<>>
        ELSE DashPattern(ip4, ptr)

\* extractPTRPattern: "*.<suffix>" when ptr embeds the IPv4 address, else ""
extractPTRPattern(ip, ptr) ==
    LET ip4 == To4(ip)
        fwdDots == JoinOctets(ip4, ".") \o <<".">>
        revDots == JoinOctets(Reverse(ip4), ".") \o <<".">>
    IN  IF ip4 = <<>> \/ ptr = <<>> THEN <<>>
        ELSE IF HasPrefix(ptr, fwdDots)
             THEN LET suffix == SubSeq(ptr, Len(fwdDots) + 1, Len(ptr))
                  IN  IF ContainsDot(suffix) THEN <<"*", ".">> \o suffix
                      ELSE <<>>
        ELSE IF HasPrefix(ptr, revDots)
             THEN LET suffix == SubSeq(ptr, Len(revDots) + 1, Len(ptr))
                  IN  IF ContainsDot(suffix) THEN <<"*", ".">> \o suffix
                      ELSE <<>>
        ELSE DashPattern(ip4, ptr)

\* singleIPNet: the /32 or /128 network of one address
singleIPNet(ip) ==
    LET normalized == To4(ip)
    IN  IF normalized = <<>>
        THEN [IP |-> ip,
              Mask |-> CIDRMask(IPv6len * ByteBits, IPv6len * ByteBits)]
        ELSE [IP |-> normalized,
              Mask |-> CIDRMask(IPv4len * ByteBits, IPv4len * ByteBits)]

\* sort.Slice(ips, bytes.Compare(ips[i], ips[j]) < 0); elements that compare
\* equal are the same byte sequence, so the result does not depend on the
\* algorithm
RECURSIVE SortIPSeq(_)
SortIPSeq(ips) ==
    IF ips = <<>> THEN <<>>
    ELSE LET m == CHOOSE i \in 1..Len(ips) :
                    \A j \in 1..Len(ips) : ~BytesLess(ips[j], ips[i])
         IN  <<ips[m]>>
             \o SortIPSeq(SubSeq(ips, 1, m - 1) \o SubSeq(ips, m + 1, Len(ips)))

\* "Deduplicate consecutive duplicates"
RECURSIVE DedupFrom(_, _)
DedupFrom(ips, i) ==
    IF i > Len(ips) THEN <<>>
    ELSE IF ~IPEqual(ips[i], ips[i - 1])
         THEN <<ips[i]>> \o DedupFrom(ips, i + 1)
         ELSE DedupFrom(ips, i + 1)

\* mutant: the bucket is sorted but duplicates stay
Dedup_None(ips) == ips

Dedup(ips) == <<ips[1]>> \o DedupFrom(ips, 2)

\* the first loop: errors aside, groups[r.PTR] = append(groups[r.PTR], r.IP)
RECURSIVE ErrorsOf(_)
ErrorsOf(results) ==
    IF results = <<>> THEN <<>>
    ELSE IF Head(results).Error # ""
         THEN <<Head(results)>> \o ErrorsOf(Tail(results))
         ELSE ErrorsOf(Tail(results))

RECURSIVE GroupAll(_, _)
GroupAll(results, ptr) ==
    IF results = <<>> THEN <<>>
    ELSE IF Head(results).PTR = ptr
         THEN <<Head(results).IP>> \o GroupAll(Tail(results), ptr)
         ELSE GroupAll(Tail(results), ptr)

RECURSIVE GroupNonErrors(_, _)
GroupNonErrors(results, ptr) ==
    IF results = <<>> THEN <<>>
    ELSE IF Head(results).Error = "" /\ Head(results).PTR = ptr
         THEN <<Head(results).IP>> \o GroupNonErrors(Tail(results), ptr)
         ELSE GroupNonErrors(Tail(results), ptr)

\* mutant: the "continue" after an error is missing
GroupIPs_NoContinue(results, ptr) == GroupAll(results, ptr)

GroupIPs(results, ptr) == GroupNonErrors(results, ptr)

GroupKeys(results) ==
    {results[i].PTR : i \in {j \in 1..Len(results) : results[j].Error = ""}}

\* a set as a sequence, in some fixed order
RECURSIVE SetToSeq(_)
SetToSeq(S) ==
    IF S = {} THEN <<>>
    ELSE LET x == CHOOSE y \in S : TRUE IN <<x>> \o SetToSeq(S \ {x})

\* all orders in which a range over a map can visit the set S
RECURSIVE Orders(_)
Orders(S) ==
    IF S = {} THEN {<<>>}
    ELSE UNION {{<<x>> \o t : t \in Orders(S \ {x})} : x \in S}

EntriesOf(nets, ptr) ==
    [i \in 1..Len(nets) |-> [Network |-> nets[i], PTR |-> ptr, Error |-> ""]]

\* Pass 1: one exact-PTR group
Deduped(results, ptr) == Dedup(SortIPSeq(GroupIPs(results, ptr)))

IsSingle(results, ptr) == Len(Deduped(results, ptr)) = 1 /\ ptr # <<>>

Pass1Entries(results, ptr) ==
    IF IsSingle(results, ptr) THEN <<>>
    ELSE EntriesOf(IPsToNetworks(Deduped(results, ptr)), ptr)

\* the single-IP groups held for the pattern pass, as a set
SinglesOf(results) ==
    {[ip |-> Deduped(results, ptr)[1], ptr |-> ptr] :
        ptr \in {q \in GroupKeys(results) : IsSingle(results, q)}}

\* Pass 2: patternGroups[pattern], in the order of singles
RECURSIVE PatternIPs(_, _)
PatternIPs(singles, pattern) ==
    IF singles = <<>> THEN <<>>
    ELSE IF extractPTRPattern(Head(singles).ip, Head(singles).ptr) = pattern
         THEN <<Head(singles).ip>> \o PatternIPs(Tail(singles), pattern)
         ELSE PatternIPs(Tail(singles), pattern)

PatternKeys(singles) ==
    {extractPTRPattern(singles[i].ip, singles[i].ptr) :
        i \in 1..Len(singles)} \ {<<>>}

\* "find the original PTR and keep it": the first single with that address
FirstSingle(singles, ip) ==
    singles[CHOOSE i \in 1..Len(singles) :
               /\ IPEqual(singles[i].ip, ip)
               /\ \A j \in 1..(i - 1) : ~IPEqual(singles[j].ip, ip)]

PatternEntries(singles, pattern) ==
    LET ips == PatternIPs(singles, pattern)
    IN  IF Len(ips) < 2
        THEN <<[Network |-> singleIPNet(FirstSingle(singles, ips[1]).ip),
                PTR |-> FirstSingle(singles, ips[1]).ptr,
                Error |-> ""]>>
        ELSE EntriesOf(IPsToNetworks(SortIPSeq(ips)), pattern)

RECURSIVE UnmatchedEntries(_)
UnmatchedEntries(singles) ==
    IF singles = <<>> THEN <<>>
    ELSE IF extractPTRPattern(Head(singles).ip, Head(singles).ptr) = <<>>
         THEN <<[Network |-> singleIPNet(Head(singles).ip),
                 PTR |-> Head(singles).ptr, Error |-> ""]>>
              \o UnmatchedEntries(Tail(singles))
         ELSE UnmatchedEntries(Tail(singles))

\* mutant: failed addresses are merged into blocks like resolved ones
ErrorEntries_Merged(results) ==
    LET errs == ErrorsOf(results)
        nets == IF errs = <<>> THEN <<>>
                ELSE IPsToNetworks(Dedup(SortIPSeq(
                         [i \in 1..Len(errs) |-> errs[i].IP])))
    IN  [i \in 1..Len(nets) |->
            [Network |-> nets[i], PTR |-> <<>>, Error |-> errs[1].Error]]

ErrorEntries(results) ==
    LET errs == ErrorsOf(results)
    IN  [i \in 1..Len(errs) |->
            [Network |-> singleIPNet(errs[i].IP), PTR |-> <<>>,
             Error |-> errs[i].Error]]

\* everything appended to consolidated before the final sort, for one order
\* of the singles
Unsorted(results, singles) ==
    LET keys == SetToSeq(GroupKeys(results))
        pats == SetToSeq(PatternKeys(singles))
    IN  Concat([i \in 1..Len(keys) |-> Pass1Entries(results, keys[i])])
        \o Concat([i \in 1..Len(pats) |-> PatternEntries(singles, pats[i])])
        \o UnmatchedEntries(singles)
        \o ErrorEntries(results)

\* sort.Slice by Network.IP is not stable: every arrangement that is sorted
\* by bytes.Compare of the base is a possible result
\* mutant: the final sort is missing, the entries stay in the order in
\* which the maps were visited
RECURSIVE SortedArrangements_AnyOrder(_, _)
SortedArrangements_AnyOrder(es, I) ==
    IF I = {} THEN {<<>>}
    ELSE UNION {{<<es[i]>> \o t :
                    t \in SortedArrangements_AnyOrder(es, I \ {i})} : i \in I}

RECURSIVE SortedArrangements(_, _)
SortedArrangements(es, I) ==
    IF I = {} THEN {<<>>}
    ELSE UNION {{<<es[i]>> \o t : t \in SortedArrangements(es, I \ {i})} :
                  i \in {k \in I : \A j \in I :
                            ~BytesLess(es[j].Network.IP, es[k].Network.IP)}}

\* ConsolidateResults: the set of slices it can return (map iteration order
\* and the order of equal keys in the final sort are not determined)
ConsolidateResults(results) ==
    UNION {LET es == Unsorted(results, singles)
           IN  SortedArrangements(es, 1..Len(es)) :
              singles \in Orders(SinglesOf(results))}

\* ------------------------------------------- output.go: the renderer
\* mutant: the nxdomain-only branch does not look at Error
RECURSIVE FilterResults_ErrorsAsNX(_, _)
FilterResults_ErrorsAsNX(results, opts) ==
    IF ~opts.ResolvedOnly /\ ~opts.NXDomainOnly THEN results
    ELSE IF results = <<>> THEN <<>>
    ELSE LET r == Head(results)
             rest == FilterResults_ErrorsAsNX(Tail(results), opts)
         IN  IF opts.ResolvedOnly /\ r.PTR # <<>> THEN <<r>> \o rest
             ELSE IF opts.NXDomainOnly /\ r.PTR = <<>> THEN <<r>> \o rest
             ELSE rest

\* FilterResults: the argument itself without a filter option, else the
\* results the loop appends, in their order
RECURSIVE FilterResults(_, _)
FilterResults(results, opts) ==
    IF ~opts.ResolvedOnly /\ ~opts.NXDomainOnly THEN results
    ELSE IF results = <<>> THEN <<>>
    ELSE LET r == Head(results)
             rest == FilterResults(Tail(results), opts)
         IN  IF opts.ResolvedOnly /\ r.PTR # <<>> THEN <<r>> \o rest
             ELSE IF opts.NXDomainOnly /\ r.PTR = <<>> /\ r.Error = ""
                  THEN <<r>> \o rest
             ELSE rest

\* SortResults: sort.Slice by bytes.Compare of IP is not stable, so every
\* arrangement sorted by that comparison is a possible result
RECURSIVE SortedResults(_, _)
SortedResults(rs, I) ==
    IF I = {} THEN {<<>>}
    ELSE UNION {{<<rs[i]>> \o t : t \in SortedResults(rs, I \ {i})} :
                  i \in {k \in I : \A j \in I :
                            ~BytesLess(rs[j].IP, rs[k].IP)}}

SortResults(results) == SortedResults(results, 1..Len(results))

HexDigits ==
    <<"0", "1", "2", "3", "4", "5", "6", "7", "8", "9",
      "a", "b", "c", "d", "e", "f">>

\* lower-case hexadecimal without leading zeros
RECURSIVE Hex(_)
Hex(n) ==
    IF n < 16 THEN <<HexDigits[n + 1]>>
    ELSE Hex(n \div 16) \o <<HexDigits[(n % 16) + 1]>>

\* the fields of an IPv6 address: two bytes each
Fields(ip) ==
    [k \in 1..((Len(ip) + 1) \div 2) |->
        IF 2 * k <= Len(ip) THEN ip[2 * k - 1] * ByteMod + ip[2 * k]
        ELSE ip[2 * k - 1]]

\* length of the run of zero fields that starts at field i
RECURSIVE ZeroRun(_, _)
ZeroRun(f, i) ==
    IF i > Len(f) \/ f[i] # 0 THEN 0 ELSE 1 + ZeroRun(f, i + 1)

\* start of the first longest run of two or more zero fields, or 0
ZeroStart(f) ==
    LET starts == {i \in 1..Len(f) : ZeroRun(f, i) >= 2}
    IN  IF starts = {} THEN 0
        ELSE CHOOSE i \in starts :
                /\ \A j \in starts : ZeroRun(f, j) <= ZeroRun(f, i)
                /\ \A j \in starts :
                      ZeroRun(f, j) = ZeroRun(f, i) => i <= j

\* the text of an IPv6 address from field i on; the run at zs becomes "::"
RECURSIVE V6Text(_, _, _)
V6Text(f, i, zs) ==
    IF i > Len(f) THEN <<>>
    ELSE IF i = zs
         THEN <<":", ":">> \o V6Text(f, i + ZeroRun(f, i), 0 - 1)
    ELSE (IF i > 1 /\ zs # 0 - 1 THEN <<":">> ELSE <<>>)
             \o Hex(f[i]) \o V6Text(f, i + 1, IF zs = 0 - 1 THEN 0 ELSE zs)

\* net.IP.String: dotted decimal for an IPv4 or IPv4-mapped address, else
\* the IPv6 text
IPString(ip) ==
    IF To4(ip) # <<>> THEN JoinOctets(To4(ip), ".")
    ELSE V6Text(Fields(ip), 1, ZeroStart(Fields(ip)))

\* net.IPNet.String: network number "/" length of the mask
IPNetString(n) ==
    IPString(NetworkNumber(n)) \o <<"/">> \o Itoa(MaskOnes(NetworkMask(n)))

isSingleHost(n) == MaskSize(n.Mask)[1] = MaskSize(n.Mask)[2]

\* mutant: the prefix length is always written
networkString_AlwaysPrefix(n) == IPNetString(n)

networkString(n) == IF isSingleHost(n) THEN IPString(n.IP) ELSE IPNetString(n)

\* the second column of a text line
TextValue(ptr, err) ==
    IF err # "" THEN <<"ERROR: ", err>>
    ELSE IF ptr # <<>> THEN ptr
    ELSE <<"NXDOMAIN">>

\* "%-<width>s": s padded on the right to width
PadRight(s, width) ==
    s \o [i \in 1..(IF width > Len(s) THEN width - Len(s) ELSE 0) |-> " "]

\* the width of the first column: 15, the longest IPv4 address, or more
MinWidth == 2 * IPv4len - 1

RECURSIVE MaxLen(_, _)
MaxLen(strs, width) ==
    IF strs = <<>> THEN width
    ELSE MaxLen(Tail(strs),
                IF Len(Head(strs)) > width THEN Len(Head(strs)) ELSE width)

TextLine(s, width, ptr, err) ==
    PadRight(s, width) \o <<" ">> \o TextValue(ptr, err) \o <<"\n">>

FormatText(results) ==
    LET strs == [i \in 1..Len(results) |-> IPString(results[i].IP)]
        width == MaxLen(strs, MinWidth)
    IN  [i \in 1..Len(results) |->
            TextLine(strs[i], width, results[i].PTR, results[i].Error)]

FormatTextConsolidated(results) ==
    LET strs == [i \in 1..Len(results) |-> networkString(results[i].Network)]
        width == MaxLen(strs, MinWidth)
    IN  [i \in 1..Len(results) |->
            TextLine(strs[i], width, results[i].PTR, results[i].Error)]

\* a nil *string: encoded as null, or left out under omitempty
Null == <<"null">>

\* JSONResult: ptr stays nil unless there is a PTR and no error; error is
\* left out when nil
JSONResult(ip, ptr, err) ==
    IF err # "" THEN [ip |-> ip, ptr |-> Null, error |-> <<err>>]
    ELSE IF ptr # <<>> THEN [ip |-> ip, ptr |-> ptr]
    ELSE [ip |-> ip, ptr |-> Null]

ConsolidatedJSONResult(network, ptr, err) ==
    IF err # "" THEN [network |-> network, ptr |-> Null, error |-> <<err>>]
    ELSE IF ptr # <<>> THEN [network |-> network, ptr |-> ptr]
    ELSE [network |-> network, ptr |-> Null]

FormatJSON(results) ==
    [i \in 1..Len(results) |->
        JSONResult(IPString(results[i].IP), results[i].PTR,
                   results[i].Error)]

FormatJSONConsolidated(results) ==
    [i \in 1..Len(results) |->
        ConsolidatedJSONResult(networkString(results[i].Network),
                               results[i].PTR, results[i].Error)]

\* WriteOutput: what it can write, with the filtered (and, per address,
\* sorted) results and the consolidated entries it wrote from
WriteOutput(results, opts) ==
    LET f == FilterResults(results, opts)
    IN  IF opts.Expand
        THEN {[filtered |-> srt, consolidated |-> <<>>,
               written |-> IF opts.Format = "json" THEN FormatJSON(srt)
                           ELSE FormatText(srt)] :
                 srt \in IF opts.Sort THEN SortResults(f) ELSE {f}}
        ELSE {[filtered |-> f, consolidated |-> c,
               written |-> IF opts.Format = "json"
                           THEN FormatJSONConsolidated(c)
                           ELSE FormatTextConsolidated(c)] :
                 c \in ConsolidateResults(f)}

\* ------------------------------------------------------------ variables
VARIABLES sortedIPs, networks, coverPc,   \* the cover under test
          results, consolidated, outPc,     \* the consolidator under test
          cidrs, maxIPs,                    \* arguments of ParseCIDRs
          cidrPc,                           \* position in ParseCIDRs
          totalSize, hasHugeRange, allocCap, allIPs, remaining, idx,
          limit, ipnet, cursor, ips, allocSize,  \* the ExpandCIDR call
          lookupIPs, concurrency,           \* arguments of LookupWorkers
          jobs, jobsClosed, sent,           \* job queue and its producer
          resultChan, resultsClosed,        \* result queue
          wpc, wip, wresult, wg,            \* workers and their wait group
          collectorPc, poolPanic,           \* the range loop of run
          cancelled,                        \* the context of LookupWorkers
          exIP, exPTR, extracted, exPc,     \* one extractPTRPattern call
          opts, filtered, written, writePc, \* one WriteOutput call
          flags, resolver, runPc, runErr    \* the command: run

coverVars == <<sortedIPs, networks, coverPc>>
outVars == <<results, consolidated, outPc>>
cidrVars == <<cidrs, maxIPs, cidrPc, totalSize, hasHugeRange, allocCap,
              allIPs, remaining, idx, limit, ipnet, cursor, ips, allocSize>>
poolVars == <<lookupIPs, concurrency, jobs, jobsClosed, sent, resultChan,
              resultsClosed, wpc, wip, wresult, wg, collectorPc, poolPanic,
              cancelled>>
exVars == <<exIP, exPTR, extracted, exPc>>
writeVars == <<opts, filtered, written, writePc>>
runVars == <<flags, resolver, runPc, runErr>>
vars == <<sortedIPs, networks, coverPc, results, consolidated, outPc,
          cidrs, maxIPs, cidrPc, totalSize, hasHugeRange, allocCap,
          allIPs, remaining, idx, limit, ipnet, cursor, ips, allocSize,
          lookupIPs, concurrency, jobs, jobsClosed, sent, resultChan,
          resultsClosed, wpc, wip, wresult, wg, collectorPc, poolPanic,
          cancelled, exIP, exPTR, extracted, exPc,
          opts, filtered, written, writePc, flags, resolver, runPc, runErr>>

OutIdle == results = <<>> /\ consolidated = <<>> /\ outPc = "idle"
CoverIdle == sortedIPs = <<>> /\ networks = <<>> /\ coverPc = "idle"
NoNet == [IP |-> <<>>, Mask |-> <<>>]
CidrIdle ==
    /\ cidrs = <<>> /\ maxIPs = 0 /\ cidrPc = "idle"
    /\ totalSize = 0 /\ hasHugeRange = FALSE /\ allocCap = 0
    /\ allIPs = <<>> /\ remaining = 0 /\ idx = 0
    /\ limit = 0 /\ ipnet = NoNet /\ cursor = <<>> /\ ips = <<>>
    /\ allocSize = 0
PoolIdle ==
    /\ lookupIPs = <<>> /\ concurrency = 0
    /\ jobs = <<>> /\ jobsClosed = FALSE /\ sent = 0
    /\ resultChan = <<>> /\ resultsClosed = FALSE
    /\ wpc = <<>> /\ wip = <<>> /\ wresult = <<>> /\ wg = 0
    /\ collectorPc = "idle" /\ poolPanic = FALSE
    /\ cancelled = FALSE
ExtractIdle ==
    exIP = <<>> /\ exPTR = <<>> /\ extracted = <<>> /\ exPc = "idle"
NoOpts ==
    [Format |-> "", ResolvedOnly |-> FALSE, NXDomainOnly |-> FALSE,
     Sort |-> FALSE, Expand |-> FALSE]
WriteIdle ==
    opts = NoOpts /\ filtered = <<>> /\ written = <<>> /\ writePc = "idle"
NoFlags ==
    [concurrency |-> 0, outputFormat |-> "", resolvedOnly |-> FALSE,
     nxdomainOnly |-> FALSE, sortOutput |-> FALSE, expandOutput |-> FALSE,
     dnsServer |-> ""]
RunIdle ==
    flags = NoFlags /\ resolver = "" /\ runPc = "idle" /\ runErr = ""

\* ------------------------------------------- cover: inputs and actions
\* IPv4 addresses 0..CoverSpan-1 and two IPv6 addresses across a byte carry
CoverUniverse ==
    {FromInt(v, IPv4len) : v \in 0..(CoverSpan - 1)}
    \cup {FromInt(ByteMod + ByteMax, IPv6len), FromInt(2 * ByteMod, IPv6len)}

CoverInit ==
    /\ sortedIPs \in {SortIPs(S) : S \in SUBSET CoverUniverse}
    /\ networks = <<>>
    /\ coverPc = "input"
    /\ OutIdle
    /\ CidrIdle
    /\ PoolIdle
    /\ ExtractIdle
    /\ WriteIdle
    /\ RunIdle

IsRun(s) == Len(findContiguousRuns(s)) <= 1

CallContiguousIPsToNetworks ==
    /\ coverPc = "input"
    /\ IsRun(sortedIPs)
    /\ networks' = ContiguousIPsToNetworks(sortedIPs)
    /\ coverPc' = "contiguous"
    /\ UNCHANGED <<sortedIPs, outVars, cidrVars, poolVars,
                   exVars, writeVars, runVars>>

CallIPsToNetworks ==
    /\ coverPc = "input"
    /\ networks' = IPsToNetworks(sortedIPs)
    /\ coverPc' = "networks"
    /\ UNCHANGED <<sortedIPs, outVars, cidrVars, poolVars,
                   exVars, writeVars, runVars>>

CoverNext == CallContiguousIPsToNetworks \/ CallIPsToNetworks

SpecCover == CoverInit /\ [][CoverNext]_vars

\* ------------------------------------- consolidator: inputs and actions
MaxResults == 3

\* names: a shared host name, and names that embed the address
HostName == <<"h", ".", "x", ".", "y">>
DashName(ip) == JoinOctets(ip, "-") \o <<".", "i", ".", "x", ".", "y">>
PrefixDashName(ip) ==
    <<"p", "-">> \o JoinOctets(ip, "-") \o <<".", "i", ".", "x", ".", "y">>

\* three consecutive IPv4 addresses that start unaligned, one IPv6 address
OutAddrs4 == {FromInt(v, IPv4len) : v \in 1..3}
\* an IPv6 address whose leading bytes lie between those of the IPv4 ones
OutAddrs6 == {FromInt(2 * (ByteMod ^ IPv4len) + 1, IPv6len)}

ResultValues ==
    {[IP |-> a, PTR |-> <<>>, Error |-> e] :
        a \in OutAddrs4 \cup OutAddrs6, e \in {"", "timeout"}}
    \cup {[IP |-> a, PTR |-> HostName, Error |-> ""] :
            a \in OutAddrs4 \cup OutAddrs6}
    \cup {[IP |-> a, PTR |-> DashName(a), Error |-> ""] : a \in OutAddrs4}
    \cup {[IP |-> FromInt(1, IPv4len),
           PTR |-> PrefixDashName(FromInt(1, IPv4len)), Error |-> ""]}

ResultLists ==
    UNION {[1..n -> ResultValues] : n \in 0..MaxResults}

OutInit ==
    /\ results \in ResultLists
    /\ consolidated = <<>>
    /\ outPc = "input"
    /\ CoverIdle
    /\ CidrIdle
    /\ PoolIdle
    /\ ExtractIdle
    /\ WriteIdle
    /\ RunIdle

CallConsolidateResults ==
    /\ outPc = "input"
    /\ consolidated' \in ConsolidateResults(results)
    /\ outPc' = "done"
    /\ UNCHANGED <<results, coverVars, cidrVars, poolVars,
                   exVars, writeVars, runVars>>

OutNext == CallConsolidateResults

SpecOut == OutInit /\ [][OutNext]_vars

\* results for the questions of copies and of order: an address without
\* a name, two aligned neighbours under one name, a failed lookup at one of
\* them, two names that embed their address, and an IPv6 address
StableValues ==
    {[IP |-> FromInt(1, IPv4len), PTR |-> <<>>, Error |-> ""],
     [IP |-> FromInt(2, IPv4len), PTR |-> HostName, Error |-> ""],
     [IP |-> FromInt(3, IPv4len), PTR |-> HostName, Error |-> ""],
     [IP |-> FromInt(3, IPv4len), PTR |-> <<>>, Error |-> "timeout"],
     [IP |-> FromInt(1, IPv4len),
      PTR |-> DashName(FromInt(1, IPv4len)), Error |-> ""],
     [IP |-> FromInt(2, IPv4len),
      PTR |-> DashName(FromInt(2, IPv4len)), Error |-> ""]}
    \cup {[IP |-> a, PTR |-> HostName, Error |-> ""] : a \in OutAddrs6}

StableInit ==
    /\ results \in UNION {[1..n -> StableValues] : n \in 0..MaxResults}
    /\ consolidated = <<>>
    /\ outPc = "input"
    /\ CoverIdle
    /\ CidrIdle
    /\ PoolIdle
    /\ ExtractIdle
    /\ WriteIdle
    /\ RunIdle

SpecStable == StableInit /\ [][OutNext]_vars

\* results for the pattern pass: names that embed their own address, a
\* second such name for one address, a name that embeds another address
\* and is shared, and a name that embeds none
PatternValues ==
    {[IP |-> a, PTR |-> DashName(a), Error |-> ""] : a \in OutAddrs4}
    \cup {[IP |-> FromInt(2, IPv4len),
           PTR |-> PrefixDashName(FromInt(2, IPv4len)), Error |-> ""],
          [IP |-> FromInt(2, IPv4len),
           PTR |-> DashName(FromInt(1, IPv4len)), Error |-> ""],
          [IP |-> FromInt(3, IPv4len), PTR |-> HostName, Error |-> ""]}

PatternInit ==
    /\ results \in UNION {[1..n -> PatternValues] : n \in 0..MaxResults}
    /\ consolidated = <<>>
    /\ outPc = "input"
    /\ CoverIdle
    /\ CidrIdle
    /\ PoolIdle
    /\ ExtractIdle
    /\ WriteIdle
    /\ RunIdle

SpecPattern == PatternInit /\ [][OutNext]_vars

\* the results of an IPv4-mapped IPv6 block ("::ffff:a.b.c.d/n"): ExpandCIDR
\* yields its addresses in 16-byte form
MappedAddrs == {v4InV6Prefix \o FromInt(v, IPv4len) : v \in 0..3}

MappedValues ==
    {[IP |-> a, PTR |-> <<>>, Error |-> e] :
        a \in MappedAddrs, e \in {"", "timeout"}}
    \cup {[IP |-> a, PTR |-> HostName, Error |-> ""] : a \in MappedAddrs}

MappedInit ==
    /\ results \in UNION {[1..n -> MappedValues] : n \in 0..MaxResults}
    /\ consolidated = <<>>
    /\ outPc = "input"
    /\ CoverIdle
    /\ CidrIdle
    /\ PoolIdle
    /\ ExtractIdle
    /\ WriteIdle
    /\ RunIdle

SpecOutMapped == MappedInit /\ [][OutNext]_vars

\* results for IPv6 addresses whose names embed the address in the full
\* zero-padded dashed form, one group of two bytes after the other as in
\* "2001-0db8-0000-0000-0000-0000-0000-0001.static.isp.net"
RECURSIVE PaddedGroups(_)
PaddedGroups(ip) ==
    IF Len(ip) <= 2 THEN [i \in 1..Len(ip) |-> Digits[ip[i] + 1]]
    ELSE <<Digits[ip[1] + 1], Digits[ip[2] + 1], "-">>
             \o PaddedGroups(SubSeq(ip, 3, Len(ip)))

V6Suffix == <<"s", ".", "x", ".", "y">>
V6DashName(ip) == PaddedGroups(ip) \o <<".">> \o V6Suffix

PatternAddrs6 ==
    {FromInt(2 * (ByteMod ^ IPv4len) + v, IPv6len) : v \in 1..3}

Pattern6Values ==
    {[IP |-> a, PTR |-> V6DashName(a), Error |-> ""] : a \in PatternAddrs6}
    \cup {[IP |-> FromInt(2 * (ByteMod ^ IPv4len), IPv6len),
           PTR |-> HostName, Error |-> ""]}

Pattern6Init ==
    /\ results \in UNION {[1..n -> Pattern6Values] : n \in 0..MaxResults}
    /\ consolidated = <<>>
    /\ outPc = "input"
    /\ CoverIdle
    /\ CidrIdle
    /\ PoolIdle
    /\ ExtractIdle
    /\ WriteIdle
    /\ RunIdle

SpecPattern6 == Pattern6Init /\ [][OutNext]_vars

\* ------------------------------- extractPTRPattern: inputs and action
\* the address the names below are built from, and the addresses tried
\* against them: itself, its 16-byte form, two other IPv4 addresses and
\* an IPv6 address
RefIP == FromInt(ByteMod + 2, IPv4len)

ExtractAddrs ==
    {RefIP, v4InV6Prefix \o RefIP, FromInt(ByteMod + 3, IPv4len),
     FromInt(2 * ByteMod + 1, IPv4len),
     FromInt(2 * (ByteMod ^ IPv4len) + 1, IPv6len)}

\* what a name starts with: the address in each of the accepted forms,
\* and near misses of them
PtrHeads ==
    LET fwdDots == JoinOctets(RefIP, ".")
        revDots == JoinOctets(Reverse(RefIP), ".")
        fwdDashes == JoinOctets(RefIP, "-")
        revDashes == JoinOctets(Reverse(RefIP), "-")
    IN  {<<>>, <<"p">>, fwdDots, revDots, fwdDashes, revDashes,
         <<"p", "-">> \o fwdDashes, <<"p", "-">> \o revDashes,
         <<"-">> \o fwdDashes, <<"p">> \o fwdDashes,
         <<"0">> \o fwdDashes, fwdDashes \o <<"p">>,
         fwdDashes \o <<"-">> \o revDashes,
         <<"p", ".">> \o fwdDashes, <<"p", ".">> \o fwdDots,
         <<"p", "-">> \o fwdDots}

\* what follows: nothing, one label, two labels, a trailing or empty label
PtrTails ==
    {<<>>, <<".">>, <<".", "x">>, <<".", "x", ".", "y">>,
     <<".", "x", ".">>, <<".", ".">>, <<"x", ".", "y">>}

PtrValues == {h \o t : h \in PtrHeads, t \in PtrTails}

ExtractInit ==
    /\ exIP \in ExtractAddrs
    /\ exPTR \in PtrValues
    /\ extracted = <<>>
    /\ exPc = "input"
    /\ CoverIdle
    /\ OutIdle
    /\ CidrIdle
    /\ PoolIdle
    /\ WriteIdle
    /\ RunIdle

CallExtractPTRPattern ==
    /\ exPc = "input"
    /\ extracted' = extractPTRPattern(exIP, exPTR)
    /\ exPc' = "done"
    /\ UNCHANGED <<exIP, exPTR, coverVars, outVars, cidrVars, poolVars,
                   writeVars, runVars>>

ExtractNext == CallExtractPTRPattern

SpecExtract == ExtractInit /\ [][ExtractNext]_vars

\* ------------------------------------- WriteOutput: inputs and actions
\* results of every kind: two neighbours under one name, an address that
\* did not resolve, one whose lookup failed, a result that carries a name
\* and an error, and an IPv6 address
WriteValues ==
    {[IP |-> FromInt(2, IPv4len), PTR |-> HostName, Error |-> ""],
     [IP |-> FromInt(3, IPv4len), PTR |-> HostName, Error |-> ""],
     [IP |-> FromInt(1, IPv4len), PTR |-> <<>>, Error |-> ""],
     [IP |-> FromInt(1, IPv4len), PTR |-> <<>>, Error |-> "timeout"],
     [IP |-> FromInt(3, IPv4len), PTR |-> HostName, Error |-> "timeout"],
     [IP |-> FromInt(2 * (ByteMod ^ IPv4len) + 1, IPv6len),
      PTR |-> <<>>, Error |-> ""]}

WriteOpts ==
    [Format : {"text", "json"}, ResolvedOnly : BOOLEAN,
     NXDomainOnly : BOOLEAN, Sort : BOOLEAN, Expand : BOOLEAN]

WriteInit ==
    /\ results \in UNION {[1..n -> WriteValues] : n \in 0..MaxResults}
    /\ opts \in WriteOpts
    /\ filtered = <<>>
    /\ consolidated = <<>>
    /\ written = <<>>
    /\ writePc = "input"
    /\ outPc = "idle"
    /\ CoverIdle
    /\ CidrIdle
    /\ PoolIdle
    /\ ExtractIdle
    /\ RunIdle

CallFilterResults ==
    /\ writePc = "input"
    /\ filtered' = FilterResults(results, opts)
    /\ writePc' = "filtered"
    /\ UNCHANGED <<results, consolidated, outPc, opts, written, coverVars,
                   cidrVars, poolVars, exVars, runVars>>

CallWriteOutput ==
    /\ writePc = "input"
    /\ \E o \in WriteOutput(results, opts) :
          /\ filtered' = o.filtered
          /\ consolidated' = o.consolidated
          /\ written' = o.written
    /\ writePc' = "written"
    /\ UNCHANGED <<results, outPc, opts, coverVars, cidrVars, poolVars,
                   exVars, runVars>>

WriteNext == CallFilterResults \/ CallWriteOutput

SpecWrite == WriteInit /\ [][WriteNext]_vars

\* ------------------------------------------ ParseCIDRs: inputs and actions
MaxCidrs == 2
MaxBudget == 3
Overrun == 2

V4Bits == IPv4len * ByteBits
V6Bits == IPv6len * ByteBits

\* the loop of ExpandCIDR is followed this far
ExpandCap == 2 ^ (WordBits - 1) + Overrun

Cidr(ip, ones) == [valid |-> TRUE, ip |-> ip, ones |-> ones]

\* a host, a block given by an inner address, the block that ends at the
\* all-ones address, the whole IPv4 space; an IPv6 pair, a countable IPv6
\* block that reaches the IPv4-mapped range, an uncountable IPv6 block; and
\* a malformed string
CidrValues ==
    { Cidr(FromInt(5, IPv4len), V4Bits),
      Cidr(FromInt(6, IPv4len), V4Bits - 2),
      Cidr(FromInt(2 ^ V4Bits - 1, IPv4len), V4Bits - 1),
      Cidr(Zeros(IPv4len), 0),
      Cidr(FromInt(ByteMax, IPv6len), V6Bits - 1),
      Cidr(v4InV6Prefix \o Zeros(IPv4len), V6Bits - V4Bits - 1),
      Cidr(Zeros(IPv6len), 0),
      [valid |-> FALSE, ip |-> <<>>, ones |-> 0] }

Budgets == (0..MaxBudget) \cup {2 ^ V4Bits + 1}

CidrInit ==
    /\ cidrs \in UNION {[1..n -> CidrValues] : n \in 0..MaxCidrs}
    /\ maxIPs \in Budgets
    /\ cidrPc = "start"
    /\ totalSize = 0 /\ hasHugeRange = FALSE /\ allocCap = 0
    /\ allIPs = <<>> /\ remaining = 0 /\ idx = 0
    /\ limit = 0 /\ ipnet = NoNet /\ cursor = <<>> /\ ips = <<>>
    /\ allocSize = 0
    /\ CoverIdle
    /\ OutIdle
    /\ PoolIdle
    /\ ExtractIdle
    /\ WriteIdle
    /\ RunIdle

\* cidr.go 73-107: the first pass, the capacity and make(allIPs)
FirstPass ==
    /\ cidrPc = "start"
    /\ LET r == FirstPassFrom(cidrs, 1, 0, FALSE)
           cap == AllocCap(r.totalSize, r.hasHugeRange, maxIPs)
       IN  /\ totalSize' = r.totalSize
           /\ hasHugeRange' = r.hasHugeRange
           /\ IF r.err
              THEN /\ cidrPc' = "error"
                   /\ UNCHANGED <<allocCap, remaining, idx>>
              ELSE /\ allocCap' = cap
                   /\ remaining' = maxIPs
                   /\ idx' = 1
                   /\ cidrPc' = IF cap > MaxSliceCap THEN "panic" ELSE "second"
    /\ UNCHANGED <<cidrs, maxIPs, allIPs, limit, ipnet, cursor, ips, allocSize,
                   coverVars, outVars, poolVars,
                   exVars, writeVars, runVars>>

\* cidr.go 108-119 and 36-55: the head of the second loop and the entry of
\* ExpandCIDR up to the first test of its loop; an error of ExpandCIDR is
\* returned with no addresses
ExpandCall ==
    /\ cidrPc = "second"
    /\ LET lim == IF maxIPs > 0 THEN remaining ELSE 0
       IN  IF idx > Len(cidrs) \/ (maxIPs > 0 /\ lim = 0)
           THEN /\ cidrPc' = "return"
                /\ UNCHANGED <<limit, ipnet, cursor, ips, allocSize, allIPs>>
           ELSE IF ~cidrs[idx].valid
           THEN /\ cidrPc' = "error"
                /\ allIPs' = <<>>
                /\ UNCHANGED <<limit, ipnet, cursor, ips, allocSize>>
           ELSE LET size == CIDRSize(cidrs[idx])
                    asz == AllocSize(size, lim)
                IN  /\ limit' = lim
                    /\ allocSize' = asz
                    /\ ipnet' = ParseCIDRnet(cidrs[idx])
                    /\ cursor' = IPMask(ParseCIDRip(cidrs[idx]),
                                        ParseCIDRnet(cidrs[idx]).Mask)
                    /\ ips' = <<>>
                    /\ cidrPc' = IF asz > MaxSliceCap THEN "panic" ELSE "expand"
                    /\ UNCHANGED allIPs
    /\ UNCHANGED <<cidrs, maxIPs, totalSize, hasHugeRange, allocCap,
                   remaining, idx, coverVars, outVars, poolVars,
                   exVars, writeVars, runVars>>

\* cidr.go 55-65: one iteration of the loop of ExpandCIDR
ExpandStep ==
    /\ cidrPc = "expand"
    /\ Len(ips) < ExpandCap
    /\ IF Contains(ipnet, cursor)
       THEN /\ ips' = Append(ips, cursor)
            /\ IF limit > 0 /\ Len(ips) + 1 >= limit
               THEN cidrPc' = "expanded" /\ UNCHANGED cursor
               ELSE cursor' = incIP(cursor) /\ UNCHANGED cidrPc
       ELSE /\ cidrPc' = "expanded"
            /\ UNCHANGED <<ips, cursor>>
    /\ UNCHANGED <<cidrs, maxIPs, totalSize, hasHugeRange, allocCap, allIPs,
                   remaining, idx, limit, ipnet, allocSize,
                   coverVars, outVars, poolVars,
                   exVars, writeVars, runVars>>

\* cidr.go 67 and 116-123: ExpandCIDR returns, its addresses are appended
ExpandReturn ==
    /\ cidrPc = "expanded"
    /\ allIPs' = allIPs \o ips
    /\ remaining' = IF maxIPs > 0 THEN (remaining - Len(ips)) % WordMod
                    ELSE remaining
    /\ idx' = idx + 1
    /\ cidrPc' = "second"
    /\ UNCHANGED <<cidrs, maxIPs, totalSize, hasHugeRange, allocCap, limit,
                   ipnet, cursor, ips, allocSize, coverVars, outVars, poolVars,
                   exVars, writeVars, runVars>>

CidrNext == FirstPass \/ ExpandCall \/ ExpandStep \/ ExpandReturn

SpecCIDR == CidrInit /\ [][CidrNext]_vars

\* ------------------------------------- LookupWorkers and the loop of run
MaxIPs == 2
MaxWorkers == 3

Workers == 1..MaxWorkers

\* the resolver of TestLookupWorkers: a name for the first address,
\* NXDOMAIN for the second, an error for the third
PoolAddrs == {FromInt(v, IPv4len) : v \in 1..3}

\* mutant: the resolver does not flag the missing record as not found
LookupAddr_NotFlagged(ip) ==
    IF ToInt(ip) = 1
    THEN [names |-> <<HostName \o <<".">>>>, err |-> ""]
    ELSE [names |-> <<>>, err |-> "timeout"]

LookupAddr(ip) ==
    IF ToInt(ip) = 1
    THEN [names |-> <<HostName \o <<".">>, <<"g", ".", "x", ".", "y", ".">>>>,
          err |-> ""]
    ELSE IF ToInt(ip) = 2 THEN [names |-> <<>>, err |-> "notfound"]
    ELSE [names |-> <<>>, err |-> "timeout"]

\* lookupIP: the first PTR without its trailing dot; a not-found error is
\* NXDOMAIN (no PTR, no error); any other error is recorded
lookupIP(ip) ==
    LET r == LookupAddr(ip)
    IN  IF r.err = "notfound" THEN [IP |-> ip, PTR |-> <<>>, Error |-> ""]
        ELSE IF r.err # "" THEN [IP |-> ip, PTR |-> <<>>, Error |-> r.err]
        ELSE [IP |-> ip,
              PTR |-> IF HasSuffix(r.names[1], <<".">>)
                      THEN SubSeq(r.names[1], 1, Len(r.names[1]) - 1)
                      ELSE r.names[1],
              Error |-> ""]

\* the result of a lookup that the cancellation cut short
CancelledResult(ip) == [IP |-> ip, PTR |-> <<>>, Error |-> "context canceled"]

LookupOutcomes(ip, c) ==
    IF c THEN {lookupIP(ip), CancelledResult(ip)} ELSE {lookupIP(ip)}

\* both queues are made with capacity len(ips)
ChanCap(n) == n

\* mutant: the closer does not wait for the workers
WaitReturns_Early(n) == TRUE

\* wg.Wait() returns when the counter is zero
WaitReturns(n) == n = 0

\* mutant: the loop of run drops what it receives
appendResult_Drop(rs, r) == rs

\* mutant: the loop of run keeps only the results without an error
appendResult_SkipErrors(rs, r) == IF r.Error # "" THEN rs ELSE Append(rs, r)

\* "results = append(results, result)"
appendResult(rs, r) == Append(rs, r)

\* mutant: the loop of run ends as soon as the queue is empty
RangeEnds_OnEmpty(q, closed) == q = <<>>

\* mutant: the loop of run never ends
RangeEnds_Never(q, closed) == FALSE

\* "for result := range resultChan" ends when the queue is closed and drained
RangeEnds(q, closed) == q = <<>> /\ closed

\* run calls LookupWorkers(ctx, ips, concurrency, resolver) with
\* concurrency >= 1; the workers are started and counted in the wait group
Init ==
    /\ lookupIPs \in UNION {[1..n -> PoolAddrs] : n \in 0..MaxIPs}
    /\ concurrency \in 1..MaxWorkers
    /\ jobs = <<>> /\ jobsClosed = FALSE /\ sent = 0
    /\ resultChan = <<>> /\ resultsClosed = FALSE
    /\ wpc = [w \in Workers |-> IF w <= concurrency THEN "recv" ELSE "off"]
    /\ wip = [w \in Workers |-> <<>>]
    /\ wresult = [w \in Workers |-> <<>>]
    /\ wg = concurrency
    /\ collectorPc = "range"
    /\ poolPanic = FALSE
    /\ cancelled = FALSE
    /\ results = <<>> /\ consolidated = <<>> /\ outPc = "idle"
    /\ CoverIdle
    /\ CidrIdle
    /\ ExtractIdle
    /\ WriteIdle
    /\ RunIdle

\* the producer: "jobs <- ip" for the next address; blocks on a full queue
Produce ==
    /\ sent < Len(lookupIPs)
    /\ Len(jobs) < ChanCap(Len(lookupIPs))
    /\ jobs' = Append(jobs, lookupIPs[sent + 1])
    /\ sent' = sent + 1
    /\ UNCHANGED <<lookupIPs, concurrency, jobsClosed, resultChan,
                   resultsClosed, wpc, wip, wresult, wg, collectorPc,
                   poolPanic, coverVars, outVars, cidrVars, cancelled,
                   exVars, writeVars, runVars>>

\* the producer: close(jobs) after the last address
CloseJobs ==
    /\ sent = Len(lookupIPs)
    /\ ~jobsClosed
    /\ jobsClosed' = TRUE
    /\ UNCHANGED <<lookupIPs, concurrency, jobs, sent, resultChan,
                   resultsClosed, wpc, wip, wresult, wg, collectorPc,
                   poolPanic, coverVars, outVars, cidrVars, cancelled,
                   exVars, writeVars, runVars>>

\* a worker: "for ip := range jobs" receives the next job
WorkerRecv(w) ==
    /\ wpc[w] = "recv"
    /\ jobs # <<>>
    /\ wip' = [wip EXCEPT ![w] = Head(jobs)]
    /\ jobs' = Tail(jobs)
    /\ wpc' = [wpc EXCEPT ![w] = "lookup"]
    /\ UNCHANGED <<lookupIPs, concurrency, jobsClosed, sent, resultChan,
                   resultsClosed, wresult, wg, collectorPc, poolPanic,
                   coverVars, outVars, cidrVars, cancelled,
                   exVars, writeVars, runVars>>

\* a worker: lookupIP(ctx, ip, resolver) returns; with the context cancelled
\* the lookup either completed or failed with the cancellation error
WorkerLookup(w) ==
    /\ wpc[w] = "lookup"
    /\ \E r \in LookupOutcomes(wip[w], cancelled) :
          wresult' = [wresult EXCEPT ![w] = r]
    /\ wpc' = [wpc EXCEPT ![w] = "send"]
    /\ UNCHANGED <<lookupIPs, concurrency, jobs, jobsClosed, sent, resultChan,
                   resultsClosed, wip, wg, collectorPc, poolPanic,
                   coverVars, outVars, cidrVars, cancelled,
                   exVars, writeVars, runVars>>

\* a worker: "results <- result"; a send on a closed queue panics, a send on
\* a full queue blocks
WorkerSend(w) ==
    /\ wpc[w] = "send"
    /\ IF resultsClosed
       THEN /\ poolPanic' = TRUE
            /\ wpc' = [wpc EXCEPT ![w] = "panic"]
            /\ UNCHANGED <<resultChan, wip, wresult>>
       ELSE /\ Len(resultChan) < ChanCap(Len(lookupIPs))
            /\ resultChan' = Append(resultChan, wresult[w])
            /\ wpc' = [wpc EXCEPT ![w] = "recv"]
            /\ wip' = [wip EXCEPT ![w] = <<>>]
            /\ wresult' = [wresult EXCEPT ![w] = <<>>]
            /\ UNCHANGED poolPanic
    /\ UNCHANGED <<lookupIPs, concurrency, jobs, jobsClosed, sent,
                   resultsClosed, wg, collectorPc, coverVars, outVars,
                   cidrVars, cancelled,
                   exVars, writeVars, runVars>>

\* a worker: the job queue is closed and drained; wg.Done()
WorkerExit(w) ==
    /\ wpc[w] = "recv"
    /\ jobs = <<>> /\ jobsClosed
    /\ wpc' = [wpc EXCEPT ![w] = "done"]
    /\ wg' = wg - 1
    /\ UNCHANGED <<lookupIPs, concurrency, jobs, jobsClosed, sent, resultChan,
                   resultsClosed, wip, wresult, collectorPc, poolPanic,
                   coverVars, outVars, cidrVars, cancelled,
                   exVars, writeVars, runVars>>

\* the closer: wg.Wait(); close(results)
CloseResults ==
    /\ ~resultsClosed
    /\ WaitReturns(wg)
    /\ resultsClosed' = TRUE
    /\ UNCHANGED <<lookupIPs, concurrency, jobs, jobsClosed, sent, resultChan,
                   wpc, wip, wresult, wg, collectorPc, poolPanic,
                   coverVars, outVars, cidrVars, cancelled,
                   exVars, writeVars, runVars>>

\* run: one iteration of "for result := range resultChan"
Collect ==
    /\ collectorPc = "range"
    /\ resultChan # <<>>
    /\ results' = appendResult(results, Head(resultChan))
    /\ resultChan' = Tail(resultChan)
    /\ UNCHANGED <<lookupIPs, concurrency, jobs, jobsClosed, sent,
                   resultsClosed, wpc, wip, wresult, wg, collectorPc,
                   poolPanic, coverVars, consolidated, outPc, cidrVars,
                   cancelled,
                   exVars, writeVars, runVars>>

\* run: the range loop sees the end of the stream
CollectEnd ==
    /\ collectorPc = "range"
    /\ RangeEnds(resultChan, resultsClosed)
    /\ collectorPc' = "done"
    /\ UNCHANGED <<lookupIPs, concurrency, jobs, jobsClosed, sent, resultChan,
                   resultsClosed, wpc, wip, wresult, wg, poolPanic,
                   coverVars, outVars, cidrVars, cancelled,
                   exVars, writeVars, runVars>>

Worker(w) ==
    WorkerRecv(w) \/ WorkerLookup(w) \/ WorkerSend(w) \/ WorkerExit(w)

Next ==
    \/ Produce
    \/ CloseJobs
    \/ \E w \in Workers : WorkerRecv(w)
    \/ \E w \in Workers : WorkerLookup(w)
    \/ \E w \in Workers : WorkerSend(w)
    \/ \E w \in Workers : WorkerExit(w)
    \/ CloseResults
    \/ Collect
    \/ CollectEnd

Spec == Init /\ [][Next]_vars

\* every goroutine that can run is eventually run, and every lookup returns
Fairness ==
    /\ WF_vars(Produce \/ CloseJobs)
    /\ \A w \in Workers : WF_vars(Worker(w))
    /\ WF_vars(CloseResults)
    /\ WF_vars(Collect \/ CollectEnd)

LiveSpec == Spec /\ Fairness

\* the caller cancels the context, at any point
Cancel ==
    /\ collectorPc = "range"
    /\ ~cancelled
    /\ cancelled' = TRUE
    /\ UNCHANGED <<lookupIPs, concurrency, jobs, jobsClosed, sent, resultChan,
                   resultsClosed, wpc, wip, wresult, wg, collectorPc,
                   poolPanic, coverVars, outVars, cidrVars,
                   exVars, writeVars, runVars>>

CancelNext == Next \/ Cancel

SpecCancel == Init /\ [][CancelNext]_vars

\* ------------------------------------------------ the command: run
\* the flags of one invocation: the defaults with one worker, and every
\* setting that differs from them in one flag
DefaultFlags ==
    [concurrency |-> 1, outputFormat |-> "text", resolvedOnly |-> FALSE,
     nxdomainOnly |-> FALSE, sortOutput |-> FALSE, expandOutput |-> FALSE,
     dnsServer |-> ""]

RunFlags ==
    {DefaultFlags,
     [DefaultFlags EXCEPT !.concurrency = 0],
     [DefaultFlags EXCEPT !.concurrency = 2],
     [DefaultFlags EXCEPT !.outputFormat = "json"],
     [DefaultFlags EXCEPT !.outputFormat = "xml"],
     [DefaultFlags EXCEPT !.resolvedOnly = TRUE],
     [DefaultFlags EXCEPT !.nxdomainOnly = TRUE],
     [DefaultFlags EXCEPT !.resolvedOnly = TRUE, !.nxdomainOnly = TRUE],
     [DefaultFlags EXCEPT !.expandOutput = TRUE],
     [DefaultFlags EXCEPT !.expandOutput = TRUE, !.sortOutput = TRUE],
     [DefaultFlags EXCEPT !.dnsServer = "8.8.8.8"],
     [DefaultFlags EXCEPT !.dnsServer = "   "]}

\* the arguments: a host without a name, two hosts whose lookups fail, a
\* block with a named host among others, a malformed argument alone and
\* behind a valid one
RunArgs ==
    {<<Cidr(FromInt(2, IPv4len), V4Bits)>>,
     <<Cidr(FromInt(4, IPv4len), V4Bits - 1)>>,
     <<Cidr(FromInt(0, IPv4len), V4Bits - 2)>>,
     <<[valid |-> FALSE, ip |-> <<>>, ones |-> 0]>>,
     <<Cidr(FromInt(2, IPv4len), V4Bits),
       [valid |-> FALSE, ip |-> <<>>, ones |-> 0]>>}

RunBudgets == 1..2

RunInit ==
    /\ flags \in RunFlags
    /\ cidrs \in RunArgs
    /\ maxIPs \in RunBudgets
    /\ resolver = "" /\ runPc = "validate" /\ runErr = ""
    /\ cidrPc = "idle"
    /\ totalSize = 0 /\ hasHugeRange = FALSE /\ allocCap = 0
    /\ allIPs = <<>> /\ remaining = 0 /\ idx = 0
    /\ limit = 0 /\ ipnet = NoNet /\ cursor = <<>> /\ ips = <<>>
    /\ allocSize = 0
    /\ CoverIdle
    /\ OutIdle
    /\ PoolIdle
    /\ ExtractIdle
    /\ WriteIdle

\* main.go 76-90: the flags are validated, then ParseCIDRs is called
RunValidate ==
    /\ runPc = "validate"
    /\ IF flags.resolvedOnly /\ flags.nxdomainOnly
       THEN runErr' = "mutually exclusive" /\ runPc' = "failed"
                /\ UNCHANGED cidrPc
       ELSE IF flags.outputFormat # "text" /\ flags.outputFormat # "json"
       THEN runErr' = "invalid output format" /\ runPc' = "failed"
                /\ UNCHANGED cidrPc
       ELSE IF flags.concurrency < 1
       THEN runErr' = "concurrency must be at least 1" /\ runPc' = "failed"
                /\ UNCHANGED cidrPc
       ELSE runPc' = "parse" /\ cidrPc' = "start" /\ UNCHANGED runErr
    /\ UNCHANGED <<flags, resolver, cidrs, maxIPs, totalSize, hasHugeRange,
                   allocCap, allIPs, remaining, idx, limit, ipnet, cursor,
                   ips, allocSize, coverVars, outVars, poolVars, exVars,
                   writeVars>>

\* the steps of ParseCIDRs(args, maxIPs)
RunParse == runPc = "parse" /\ CidrNext

\* main.go 91-107: the outcome of ParseCIDRs, the choice of the resolver
\* and the call of LookupWorkers
RunLookup ==
    /\ runPc = "parse"
    /\ cidrPc \in {"return", "error"}
    /\ IF cidrPc = "error" \/ Len(allIPs) = 0
       THEN /\ runErr' = IF cidrPc = "error" THEN "invalid CIDR"
                         ELSE "no IP addresses in specified CIDR blocks"
            /\ runPc' = "failed"
            /\ UNCHANGED <<resolver, poolVars>>
       ELSE /\ resolver' = IF flags.dnsServer # "" THEN "custom"
                           ELSE "default"
            /\ lookupIPs' = allIPs
            /\ concurrency' = flags.concurrency
            /\ jobs' = <<>> /\ jobsClosed' = FALSE /\ sent' = 0
            /\ resultChan' = <<>> /\ resultsClosed' = FALSE
            /\ wpc' = [w \in Workers |->
                          IF w <= flags.concurrency THEN "recv" ELSE "off"]
            /\ wip' = [w \in Workers |-> <<>>]
            /\ wresult' = [w \in Workers |-> <<>>]
            /\ wg' = flags.concurrency
            /\ collectorPc' = "range"
            /\ UNCHANGED <<poolPanic, cancelled, runErr>>
            /\ runPc' = "collect"
    /\ UNCHANGED <<flags, coverVars, outVars, cidrVars, exVars, writeVars>>

\* LookupWorkers and the range loop of run
RunCollect == runPc = "collect" /\ Next

\* main.go 137-146: the options are built and WriteOutput is called
RunOptions ==
    [Format |-> flags.outputFormat,
     ResolvedOnly |-> flags.resolvedOnly,
     NXDomainOnly |-> flags.nxdomainOnly,
     Sort |-> flags.sortOutput,
     Expand |-> flags.expandOutput]

RunWriteOutput ==
    /\ runPc = "collect"
    /\ collectorPc = "done"
    /\ opts' = RunOptions
    /\ \E o \in WriteOutput(results, RunOptions) :
          /\ filtered' = o.filtered
          /\ consolidated' = o.consolidated
          /\ written' = o.written
    /\ writePc' = "written"
    /\ runPc' = "done"
    /\ UNCHANGED <<flags, resolver, runErr, results, outPc, coverVars,
                   cidrVars, poolVars, exVars>>

RunNext ==
    RunValidate \/ RunParse \/ RunLookup \/ RunCollect \/ RunWriteOutput

SpecRun == RunInit /\ [][RunNext]_vars

\* --------------------------------------------- properties of the cover
HostBits(n) == MaskSize(n.Mask)[2] - MaskSize(n.Mask)[1]

\* the base has all host bits zero under its mask
Aligned(n) == MaskIP(n.IP, n.Mask) = n.IP

\* the addresses of a block, as <<length in bytes, value>>
NetAddrs(n) ==
    {<<Len(n.IP), ToInt(n.IP) + k>> : k \in 0..(2 ^ HostBits(n) - 1)}

AddrKeys(s) == {<<Len(s[i]), ToInt(s[i])>> : i \in 1..Len(s)}

CoverIsExact(nets, addrs) ==
    /\ \A i \in 1..Len(nets) : Aligned(nets[i])
    /\ \A i, j \in 1..Len(nets) :
          i < j => /\ NetAddrs(nets[i]) \cap NetAddrs(nets[j]) = {}
                   /\ BytesLess(nets[i].IP, nets[j].IP)
    /\ UNION {NetAddrs(nets[i]) : i \in 1..Len(nets)} = AddrKeys(addrs)

\* C6: the blocks of ContiguousIPsToNetworks(A), and of IPsToNetworks on a
\* sorted duplicate-free list, are aligned, pairwise disjoint, in ascending
\* base order, and together cover exactly the input addresses.
C6_CoverExact ==
    coverPc \in {"contiguous", "networks"} => CoverIsExact(networks, sortedIPs)

C6_Witness ==
    /\ coverPc = "networks"
    /\ Len(findContiguousRuns(sortedIPs)) >= 2
    /\ \E i \in 1..Len(networks) : HostBits(networks[i]) >= 2
    /\ \E i \in 1..Len(networks) : Len(networks[i].IP) = IPv6len

\* the largest b <= trailing zero bits of v (width w) with 2^b <= r
LargestFit(v, w, r) ==
    CHOOSE b \in 0..w :
        /\ v % (2 ^ b) = 0 /\ 2 ^ b <= r
        /\ \A c \in (b + 1)..w : ~(v % (2 ^ c) = 0 /\ 2 ^ c <= r)

\* index into the run of the start of block i
RECURSIVE BlockPos(_, _)
BlockPos(nets, i) ==
    IF i = 1 THEN 1 ELSE BlockPos(nets, i - 1) + 2 ^ HostBits(nets[i - 1])

Mergeable(n1, n2) ==
    /\ Len(n1.IP) = Len(n2.IP)
    /\ HostBits(n1) = HostBits(n2)
    /\ HostBits(n1) < Len(n1.IP) * ByteBits
    /\ ToInt(n1.IP) % (2 ^ (HostBits(n1) + 1)) = 0
    /\ ToInt(n2.IP) = ToInt(n1.IP) + 2 ^ HostBits(n1)

\* C7: the cover of a contiguous run is minimal: every block is the largest
\* aligned power of two that fits the remaining addresses, and no two
\* adjacent blocks merge into one aligned block.
C7_CoverMinimal ==
    coverPc = "contiguous" =>
        /\ \A i \in 1..Len(networks) :
              LET pos == BlockPos(networks, i)
              IN  /\ pos <= Len(sortedIPs)
                  /\ networks[i].IP = sortedIPs[pos]
                  /\ HostBits(networks[i]) =
                        LargestFit(ToInt(sortedIPs[pos]),
                                   Len(sortedIPs[pos]) * ByteBits,
                                   Len(sortedIPs) - pos + 1)
        /\ \A i \in 1..(Len(networks) - 1) :
              ~Mergeable(networks[i], networks[i + 1])

C7_Witness ==
    /\ coverPc = "contiguous"
    /\ Len(networks) >= 3
    /\ \E i \in 1..Len(networks) : HostBits(networks[i]) >= 2

\* the family of a network base as singleIPNet tells it, and its value
IsV4(ip) == To4(ip) # <<>>

BaseValue(ip) == IF IsV4(ip) THEN ToInt(To4(ip)) ELSE ToInt(ip)

\* C15: within one address family the entries are in ascending order of
\* their network base address.
C15_FamilyOrder ==
    outPc = "done" =>
        \A i, j \in 1..Len(consolidated) :
            (i < j /\ IsV4(consolidated[i].Network.IP)
                        = IsV4(consolidated[j].Network.IP)) =>
                BaseValue(consolidated[i].Network.IP)
                    <= BaseValue(consolidated[j].Network.IP)

\* C16: the entries of the two families are never interleaved: no entry of
\* one family stands between two entries of the other.
C16_FamiliesApart ==
    outPc = "done" =>
        \A i, j, k \in 1..Len(consolidated) :
            (i < j /\ j < k) =>
                ~(/\ IsV4(consolidated[i].Network.IP)
                        = IsV4(consolidated[k].Network.IP)
                  /\ IsV4(consolidated[i].Network.IP)
                        # IsV4(consolidated[j].Network.IP))

\* ------------------------------------------ properties of the enumerator
AllValid(cs) == \A i \in 1..Len(cs) : cs[i].valid

CidrHostBits(c) == Len(c.ip) * ByteBits - c.ones

CidrBase(c) == ToInt(c.ip) - (ToInt(c.ip) % (2 ^ CidrHostBits(c)))

\* the first budget addresses of the concatenation, in input order, of the
\* ascending expansions of cs[i..]
RECURSIVE ExpectedFrom(_, _, _)
ExpectedFrom(cs, i, budget) ==
    IF i > Len(cs) \/ budget = 0 THEN <<>>
    ELSE LET n == Min(budget, 2 ^ CidrHostBits(cs[i]))
         IN  [k \in 1..n |-> FromInt(CidrBase(cs[i]) + k - 1, Len(cs[i].ip))]
             \o ExpectedFrom(cs, i + 1, budget - n)

\* C3: for well-formed CIDRs and a budget B > 0, ParseCIDRs returns the
\* first min(B, sum of block sizes) addresses of the concatenation, in input
\* order, of the blocks' full ascending expansions; the remaining budget
\* never leaves 0..B.
C3_BudgetPrefix ==
    (maxIPs > 0 /\ AllValid(cidrs)) =>
        /\ cidrPc # "panic"
        /\ remaining <= maxIPs
        /\ cidrPc = "return" => allIPs = ExpectedFrom(cidrs, 1, maxIPs)

\* C4: with budget 0 and a block of WordBits or more host bits in the
\* input, ParseCIDRs returns at most the safety cap and, for the huge
\* block, neither requests nor enumerates more than the cap.
C4_SafetyCap ==
    (maxIPs = 0 /\ AllValid(cidrs)
        /\ \E i \in 1..Len(cidrs) : CidrHostBits(cidrs[i]) >= WordBits) =>
        /\ cidrPc = "return" => Len(allIPs) <= DefaultAllocCap
        /\ (cidrPc \in {"expand", "expanded", "panic"} /\ idx \in 1..Len(cidrs)
               /\ CidrHostBits(cidrs[idx]) >= WordBits) =>
              /\ cidrPc # "panic"
              /\ allocSize <= DefaultAllocCap
              /\ Len(ips) <= DefaultAllocCap

\* C5: ExpandCIDR(c, 0) on a block of fewer than WordBits host bits never
\* holds more than 2^host_bits addresses and returns exactly that many.
C5_BoundedIteration ==
    (cidrPc \in {"expand", "expanded"} /\ limit = 0
        /\ CidrHostBits(cidrs[idx]) < WordBits) =>
        /\ Len(ips) <= 2 ^ CidrHostBits(cidrs[idx])
        /\ cidrPc = "expanded" => Len(ips) = 2 ^ CidrHostBits(cidrs[idx])

\* C13: for a well-formed CIDR c and a limit B > 0, ExpandCIDR(c, B) returns
\* exactly min(size(c), B) addresses, the i-th being the canonical base
\* plus i (so they ascend strictly and none changes after it was emitted).
C13_LimitedExpansion ==
    (cidrPc \in {"expand", "expanded"} /\ limit > 0) =>
        /\ Len(ips) <= Min(2 ^ CidrHostBits(cidrs[idx]), limit)
        /\ \A i \in 1..Len(ips) :
              ips[i] = FromInt(CidrBase(cidrs[idx]) + i - 1,
                               Len(cidrs[idx].ip))
        /\ cidrPc = "expanded" =>
              Len(ips) = Min(2 ^ CidrHostBits(cidrs[idx]), limit)

\* C14: with a malformed element anywhere in the list, ParseCIDRs expands
\* nothing and ends with the error and no addresses, whatever the budget.
C14_InvalidFailsAll ==
    ~AllValid(cidrs) =>
        /\ cidrPc \in {"start", "error"}
        /\ allIPs = <<>>
        /\ ips = <<>>

\* the malformed element comes after a block that exhausts the budget
C14_Witness ==
    /\ cidrPc = "error"
    /\ Len(cidrs) = 2
    /\ cidrs[1].valid /\ ~cidrs[2].valid
    /\ maxIPs = 1

\* ------------------------------------------ properties of the worker pool
Count(sq, a) == Cardinality({i \in 1..Len(sq) : sq[i] = a})

IPsOf(rs) == [i \in 1..Len(rs) |-> rs[i].IP]

HeldBy(a) == Cardinality({w \in Workers : wip[w] = a})

AllWorkersExited == \A w \in Workers : wpc[w] \in {"done", "off"}

\* C2: every address is, in every state, in exactly one place (not yet
\* queued, in the job queue, with one worker, in the result queue, or
\* delivered), and at the end of the stream the delivered results are
\* exactly N with the multiset of the input addresses.
C2_ExactlyOnce ==
    /\ \A a \in PoolAddrs :
          Count(SubSeq(lookupIPs, sent + 1, Len(lookupIPs)), a)
            + Count(jobs, a) + HeldBy(a)
            + Count(IPsOf(resultChan), a) + Count(IPsOf(results), a)
          = Count(lookupIPs, a)
    /\ collectorPc = "done" =>
          /\ Len(results) = Len(lookupIPs)
          /\ \A a \in PoolAddrs :
                Count(IPsOf(results), a) = Count(lookupIPs, a)
          /\ \A i \in 1..Len(results) : results[i] = lookupIP(results[i].IP)

\* two workers, two different addresses, delivered in the other order
C2_Witness ==
    /\ collectorPc = "done"
    /\ concurrency >= 2
    /\ Len(lookupIPs) = 2
    /\ lookupIPs[1] # lookupIPs[2]
    /\ results[1].IP = lookupIPs[2]

\* C9: no worker publishes to a closed result queue; the queue is closed
\* only when every worker has exited; and when the consumer sees the end
\* of the stream no result is unpublished.
C9_CloseAfterWorkers ==
    /\ ~poolPanic
    /\ resultsClosed => AllWorkersExited
    /\ collectorPc = "done" =>
          /\ AllWorkersExited
          /\ sent = Len(lookupIPs) /\ jobs = <<>> /\ resultChan = <<>>

\* the queue is closed while results are still buffered for the consumer
C9_Witness ==
    /\ resultsClosed
    /\ collectorPc = "range"
    /\ Len(resultChan) >= 2
    /\ concurrency >= 2

\* no participant stands before a full queue
NeverBlocks ==
    /\ sent < Len(lookupIPs) => Len(jobs) < ChanCap(Len(lookupIPs))
    /\ \A w \in Workers :
          wpc[w] = "send" => Len(resultChan) < ChanCap(Len(lookupIPs))

\* C10: under fair scheduling, with every lookup returning, the result
\* stream is eventually closed and the loop of run ends, for every N >= 0
\* and K >= 1; the producer and the workers never find a queue full.
C10_Liveness ==
    /\ []NeverBlocks
    /\ <>(resultsClosed /\ collectorPc = "done")

\* more workers than addresses, and all of them have exited before the
\* consumer has read anything: the result queue is full
C10_Witness ==
    /\ wg = 0
    /\ results = <<>>
    /\ Len(lookupIPs) >= 2
    /\ concurrency > Len(lookupIPs)
    /\ Len(resultChan) = Len(lookupIPs)

\* every result a worker has produced so far
Produced ==
    Range(resultChan) \cup Range(results)
        \cup {wresult[w] : w \in {v \in Workers : wpc[v] = "send"}}

\* C11: a successful answer gives the first name without its trailing dot
\* and no Error; a not-found error gives NXDOMAIN (no PTR, no Error); any
\* other error gives Error and no PTR; no result has both a PTR and an
\* Error; and a worker that produced an Error goes on to receive.
C11_Classification ==
    /\ \A r \in Produced :
          /\ ToInt(r.IP) = 1 => r.PTR = HostName /\ r.Error = ""
          /\ ToInt(r.IP) = 2 => r.PTR = <<>> /\ r.Error = ""
          /\ ToInt(r.IP) = 3 => r.PTR = <<>> /\ r.Error = "timeout"
          /\ r.PTR = <<>> \/ r.Error = ""
    /\ \A w \in Workers : wpc[w] \in {"off", "recv", "lookup", "send", "done"}

\* one worker delivered an error and then a name
C11_Witness ==
    /\ collectorPc = "done"
    /\ concurrency = 1
    /\ Len(results) = 2
    /\ results[1].Error # ""
    /\ results[2].PTR = HostName

\* C12: with the context cancelled at any point, every address is still in
\* exactly one place, the consumer receives N results, each the completed
\* lookup or the cancellation error of its address, and the result stream
\* is closed only after all workers have drained the job queue and exited.
C12_CancelKeepsResults ==
    /\ ~poolPanic
    /\ \A a \in PoolAddrs :
          Count(SubSeq(lookupIPs, sent + 1, Len(lookupIPs)), a)
            + Count(jobs, a) + HeldBy(a)
            + Count(IPsOf(resultChan), a) + Count(IPsOf(results), a)
          = Count(lookupIPs, a)
    /\ resultsClosed =>
          AllWorkersExited /\ jobs = <<>> /\ sent = Len(lookupIPs)
    /\ \A r \in Produced :
          /\ r \in {lookupIP(r.IP), CancelledResult(r.IP)}
          /\ r = CancelledResult(r.IP) => cancelled
    /\ collectorPc = "done" =>
          /\ Len(results) = Len(lookupIPs)
          /\ \A a \in PoolAddrs :
                Count(IPsOf(results), a) = Count(lookupIPs, a)

\* cancelled between two lookups: one completed, one failed as cancelled
C12_Witness ==
    /\ collectorPc = "done"
    /\ cancelled
    /\ Len(results) = 2
    /\ results[1] = lookupIP(results[1].IP) /\ results[1].PTR # <<>>
    /\ results[2] = CancelledResult(results[2].IP)

\* ---------------------------------------- properties of the consolidator
ResultAddrs(rs) == {<<Len(rs[i].IP), ToInt(rs[i].IP)>> : i \in 1..Len(rs)}

EntryAddrs(e) == NetAddrs(e.Network)

\* C1: the networks of the entries returned by ConsolidateResults(R)
\* partition the address set of R: their union is the set of addresses of
\* R and two distinct entries cover disjoint address sets.
C1_Partition ==
    outPc = "done" =>
        /\ UNION {EntryAddrs(consolidated[i]) : i \in 1..Len(consolidated)}
              = ResultAddrs(results)
        /\ \A i, j \in 1..Len(consolidated) :
              i # j => EntryAddrs(consolidated[i])
                          \cap EntryAddrs(consolidated[j]) = {}

IsWildcard(ptr) == HasPrefix(ptr, <<"*", ".">>)

\* the result r is of the class the entry e reports
InClass(r, e) ==
    IF e.Error # "" THEN r.Error # ""
    ELSE IF e.PTR = <<>> THEN r.PTR = <<>> /\ r.Error = ""
    ELSE IF IsWildcard(e.PTR)
         THEN r.Error = "" /\ extractPTRPattern(r.IP, r.PTR) = e.PTR
    ELSE r.Error = "" /\ r.PTR = e.PTR

\* C8: for every entry e and every address inside e.Network, the input holds
\* a result for that address in e's class (error, NXDOMAIN, the exact PTR,
\* or a PTR whose extracted pattern is e's wildcard).
C8_ClassPurity ==
    outPc = "done" =>
        \A i \in 1..Len(consolidated) :
            \A k \in EntryAddrs(consolidated[i]) :
                \E j \in 1..Len(results) :
                    /\ <<Len(results[j].IP), ToInt(results[j].IP)>> = k
                    /\ InClass(results[j], consolidated[i])

\* a wildcard block of two addresses next to an NXDOMAIN entry and an error
C8_Witness ==
    /\ outPc = "done"
    /\ \E i \in 1..Len(consolidated) :
          IsWildcard(consolidated[i].PTR) /\ HostBits(consolidated[i].Network) >= 1
    /\ \E i \in 1..Len(consolidated) :
          consolidated[i].Error # "" \/ consolidated[i].PTR = <<>>

\* ------------------------------- properties of the pattern pass
\* the addresses that hold the exact name p without an error
HoldersOf(p) ==
    {results[i].IP : i \in {j \in 1..Len(results) :
                               results[j].Error = "" /\ results[j].PTR = p}}

\* the results whose name is held by one address only
SingletonResults ==
    {i \in 1..Len(results) :
        /\ results[i].Error = "" /\ results[i].PTR # <<>>
        /\ Cardinality(HoldersOf(results[i].PTR)) = 1}

\* the singleton results whose name gives the wildcard pat
BucketOf(pat) ==
    {i \in SingletonResults :
        extractPTRPattern(results[i].IP, results[i].PTR) = pat}

BucketAddrs(pat) == {results[i].IP : i \in BucketOf(pat)}

WildcardsOf ==
    {extractPTRPattern(results[i].IP, results[i].PTR) : i \in SingletonResults}
        \ {<<>>}

EntriesWith(ptr) ==
    SelectSeq(consolidated, LAMBDA e : e.Error = "" /\ e.PTR = ptr)

NetworksOf(es) == [i \in 1..Len(es) |-> es[i].Network]

\* C17: a wildcard shared by the singleton names of two or more addresses
\* is reported on the minimal cover of those addresses; an address in a
\* wildcard block got there through a singleton name; and addresses that
\* share an exact name are reported under that name.
C17_PatternCover ==
    outPc = "done" =>
        /\ \A pat \in WildcardsOf :
              Cardinality(BucketAddrs(pat)) >= 2 =>
                  NetworksOf(EntriesWith(pat))
                      = IPsToNetworks(SortIPs(BucketAddrs(pat)))
        /\ \A i \in 1..Len(consolidated) :
              IsWildcard(consolidated[i].PTR) =>
                  \A k \in EntryAddrs(consolidated[i]) :
                      \E j \in BucketOf(consolidated[i].PTR) :
                          <<Len(results[j].IP), ToInt(results[j].IP)>> = k
        /\ \A i \in 1..Len(results) :
              (results[i].Error = ""
                  /\ Cardinality(HoldersOf(results[i].PTR)) >= 2) =>
                  \E j \in 1..Len(consolidated) :
                      /\ consolidated[j].PTR = results[i].PTR
                      /\ <<Len(results[i].IP), ToInt(results[i].IP)>>
                            \in EntryAddrs(consolidated[j])

\* C18: a wildcard is reported only when two or more distinct addresses
\* share it; the single address of a pattern is reported as a single host
\* under its own exact name.
C18_PatternThreshold ==
    outPc = "done" =>
        /\ \A i \in 1..Len(consolidated) :
              IsWildcard(consolidated[i].PTR) =>
                  Cardinality(BucketAddrs(consolidated[i].PTR)) >= 2
        /\ \A pat \in WildcardsOf :
              Cardinality(BucketAddrs(pat)) = 1 =>
                  \E i \in BucketOf(pat) : \E j \in 1..Len(consolidated) :
                      /\ consolidated[j].Network = singleIPNet(results[i].IP)
                      /\ consolidated[j].PTR = results[i].PTR

\* ------------------------------ properties of the pattern extractor
\* the texts that follow the address in exPTR: what is left of the name
\* after a.b.c.d. or d.c.b.a., or after a first label that is, or ends
\* in a dash and, a-b-c-d or d-c-b-a
EmbeddedTails(ip, ptr) ==
    LET a == To4(ip)
        dotted == {JoinOctets(a, "."), JoinOctets(Reverse(a), ".")}
        dashed == {JoinOctets(a, "-"), JoinOctets(Reverse(a), "-")}
    IN  IF a = <<>> THEN {}
        ELSE {SubSeq(ptr, k + 1, Len(ptr)) :
                 k \in {j \in 1..Len(ptr) :
                    /\ ptr[j] = "."
                    /\ LET lead == SubSeq(ptr, 1, j - 1)
                       IN  \/ lead \in dotted
                           \/ /\ ~ContainsDot(lead)
                              /\ \/ lead \in dashed
                                 \/ \E d \in dashed :
                                       HasSuffix(lead, <<"-">> \o d)}}

\* the recognised suffixes: those of two or more labels
Suffixes(ip, ptr) == {t \in EmbeddedTails(ip, ptr) : ContainsDot(t)}

\* C19: for an IPv4 address, extractPTRPattern returns "*.<suffix>" exactly
\* when the PTR is the address in one of the six accepted forms followed
\* by the recognised <suffix>; in every other case it returns the empty
\* string, and the result is never the PTR itself.
C19_ExactForms ==
    (exPc = "done" /\ To4(exIP) # <<>>) =>
        /\ (extracted # <<>>) <=> (Suffixes(exIP, exPTR) # {})
        /\ extracted # <<>> =>
              \E t \in Suffixes(exIP, exPTR) : extracted = <<"*", ".">> \o t
        /\ extracted = <<>> \/ IsWildcard(extracted)
        /\ extracted # <<>> => extracted # exPTR

\* a name whose first label ends in the reversed dashed address gave a
\* wildcard
C19_Witness ==
    /\ exPc = "done"
    /\ exIP = RefIP
    /\ HasPrefix(exPTR, <<"p", "-">> \o JoinOctets(Reverse(RefIP), "-"))
    /\ extracted = <<"*", ".", "x", ".", "y">>

\* C20: for every address and PTR, a non-empty result is "*." followed by
\* a suffix of the PTR that contains a '.', and a PTR whose text after
\* the embedded address is a single label gives no pattern.
C20_SuffixValidity ==
    exPc = "done" =>
        /\ extracted # <<>> =>
              \E k \in 1..Len(exPTR) :
                 /\ ContainsDot(SubSeq(exPTR, k, Len(exPTR)))
                 /\ extracted = <<"*", ".">> \o SubSeq(exPTR, k, Len(exPTR))
        /\ (/\ EmbeddedTails(exIP, exPTR) # {}
            /\ \A t \in EmbeddedTails(exIP, exPTR) : ~ContainsDot(t))
              => extracted = <<>>

\* the dashed address followed by one label gave no pattern
C20_Witness ==
    /\ exPc = "done"
    /\ exPTR = JoinOctets(To4(exIP), "-") \o <<".", "x">>
    /\ EmbeddedTails(exIP, exPTR) = {<<"x">>}
    /\ extracted = <<>>

\* --------------------------- properties of the IPv6 pattern pass
\* every result is an IPv6 address under the name that embeds it
AllEmbedded6 ==
    /\ results # <<>>
    /\ \A i \in 1..Len(results) :
          /\ To4(results[i].IP) = <<>>
          /\ results[i].Error = ""
          /\ results[i].PTR = V6DashName(results[i].IP)

\* C21: the results of two or more IPv6 addresses whose names embed their
\* own address in the full dashed form before one common suffix are
\* reported under "*.<suffix>" on the minimal cover of those addresses.
C21_IPv6Patterns ==
    (outPc = "done" /\ AllEmbedded6
        /\ Cardinality({results[i].IP : i \in 1..Len(results)}) >= 2) =>
        /\ \A j \in 1..Len(consolidated) :
              consolidated[j].PTR = <<"*", ".">> \o V6Suffix
        /\ NetworksOf(consolidated)
              = IPsToNetworks(SortIPs({results[i].IP : i \in 1..Len(results)}))

\* ------------------------------------------ properties of the renderer
\* the positions of results that a filter option keeps
Kept(rs, o) ==
    {i \in 1..Len(rs) :
        \/ ~o.ResolvedOnly /\ ~o.NXDomainOnly
        \/ o.ResolvedOnly /\ rs[i].PTR # <<>>
        \/ o.NXDomainOnly /\ rs[i].PTR = <<>> /\ rs[i].Error = ""}

\* the elements of rs at the positions I, in their order
RECURSIVE Restrict(_, _, _)
Restrict(rs, I, i) ==
    IF i > Len(rs) THEN <<>>
    ELSE (IF i \in I THEN <<rs[i]>> ELSE <<>>) \o Restrict(rs, I, i + 1)

\* C22: FilterResults with resolved-only returns exactly the results with
\* a PTR, with nxdomain-only exactly those without PTR and without Error,
\* with neither all of them, always unaltered and in their original order.
C22_Filter ==
    (writePc = "filtered" /\ ~(opts.ResolvedOnly /\ opts.NXDomainOnly)) =>
        filtered = Restrict(results, Kept(results, opts), 1)

\* nxdomain-only dropped a failed lookup and kept an address without a name
C22_Witness ==
    /\ writePc = "filtered"
    /\ opts.NXDomainOnly /\ ~opts.ResolvedOnly
    /\ \E i \in 1..Len(results) : results[i].Error # ""
    /\ filtered # <<>>
    /\ Len(filtered) < Len(results)

\* a sequence of addresses in ascending order: ascending within each
\* family, and the two families not interleaved
Ascending(addrs) ==
    /\ \A i, j \in 1..Len(addrs) :
          (i < j /\ IsV4(addrs[i]) = IsV4(addrs[j])) =>
              BaseValue(addrs[i]) <= BaseValue(addrs[j])
    /\ \A i, j, k \in 1..Len(addrs) :
          (i < j /\ j < k) =>
              ~(IsV4(addrs[i]) = IsV4(addrs[k])
                   /\ IsV4(addrs[i]) # IsV4(addrs[j]))

\* one sequence is a rearrangement of the other
SameElements(a, b) ==
    /\ Len(a) = Len(b)
    /\ \A x \in Range(a) \cup Range(b) :
          Cardinality({i \in 1..Len(a) : a[i] = x})
              = Cardinality({i \in 1..Len(b) : b[i] = x})

\* C23: consolidated output has one record per entry, always in ascending
\* order of the network base; per-address output has one record per
\* filtered result, in collection order without Sort and in ascending
\* address order with Sort.
C23_Ordering ==
    writePc = "written" =>
        IF opts.Expand
        THEN /\ Len(written) = Len(FilterResults(results, opts))
             /\ ~opts.Sort => filtered = FilterResults(results, opts)
             /\ opts.Sort =>
                   /\ SameElements(filtered, FilterResults(results, opts))
                   /\ Ascending([i \in 1..Len(filtered) |-> filtered[i].IP])
        ELSE /\ Len(written) = Len(consolidated)
             /\ Ascending([i \in 1..Len(consolidated) |->
                              consolidated[i].Network.IP])

\* the first column of a text line (up to the padding) and its second
\* column (between the padding and the end of the line)
TextLeft(line) ==
    SubSeq(line, 1, (CHOOSE i \in 1..Len(line) :
                        line[i] = " " /\ \A j \in 1..(i - 1) : line[j] # " ")
                    - 1)

TextRight(line) ==
    LET last == CHOOSE i \in 1..Len(line) :
                    line[i] = " " /\ \A j \in (i + 1)..Len(line) : line[j] # " "
    IN  SubSeq(line, last + 1, Len(line) - 1)

\* what a record shows for a network or an address, for a PTR and for an
\* error, in either format
ShownName(rec, format, key) ==
    IF format = "json" THEN rec[key] ELSE TextLeft(rec)

ShowsValue(rec, format, ptr, err) ==
    IF format = "json"
    THEN /\ ("error" \in DOMAIN rec) <=> (err # "")
         /\ err # "" => rec.error = <<err>> /\ rec.ptr = Null
         /\ (err = "" /\ ptr # <<>>) => rec.ptr = ptr
         /\ (err = "" /\ ptr = <<>>) => rec.ptr = Null
    ELSE /\ err # "" => TextRight(rec) = <<"ERROR: ", err>>
         /\ (err = "" /\ ptr # <<>>) => TextRight(rec) = ptr
         /\ (err = "" /\ ptr = <<>>) => TextRight(rec) = <<"NXDOMAIN">>

\* C24: every record shows a single-host network as the bare address and
\* any other network as base/prefix; its value is "ERROR: <detail>" when
\* Error is set, else the PTR when there is one, else NXDOMAIN; in JSON ptr
\* is null for NXDOMAIN and for errors and error is present exactly when
\* Error is set.
C24_Rendering ==
    writePc = "written" =>
        IF opts.Expand
        THEN \A k \in 1..Len(filtered) :
                /\ ShownName(written[k], opts.Format, "ip")
                      = IPString(filtered[k].IP)
                /\ ShowsValue(written[k], opts.Format,
                              filtered[k].PTR, filtered[k].Error)
        ELSE \A k \in 1..Len(consolidated) :
                LET n == consolidated[k].Network
                    name == ShownName(written[k], opts.Format, "network")
                IN  /\ HostBits(n) = 0 => name = IPString(n.IP)
                    /\ HostBits(n) = 0 => \A i \in 1..Len(name) : name[i] # "/"
                    /\ HostBits(n) > 0 =>
                          name = IPString(n.IP) \o <<"/">>
                                    \o Itoa(Len(n.IP) * ByteBits - HostBits(n))
                    /\ ShowsValue(written[k], opts.Format,
                                  consolidated[k].PTR, consolidated[k].Error)

\* structured output of a block of two addresses and of a failed lookup
C24_Witness ==
    /\ writePc = "written"
    /\ ~opts.Expand /\ opts.Format = "json"
    /\ \E k \in 1..Len(consolidated) :
          /\ HostBits(consolidated[k].Network) = 1
          /\ written[k].network =
                IPString(consolidated[k].Network.IP) \o <<"/">>
                    \o Itoa(IPv4len * ByteBits - 1)
    /\ \E k \in 1..Len(consolidated) :
          /\ consolidated[k].Error # ""
          /\ "error" \in DOMAIN written[k]

\* ---------------------------------------------- properties of the run
\* a server given by the flag whose host part is empty after trimming
InvalidServer(server) == server # "" /\ server \in {" ", "  ", "   "}

\* the fatal conditions known before any lookup
FatalInput ==
    \/ flags.resolvedOnly /\ flags.nxdomainOnly
    \/ flags.outputFormat \notin {"text", "json"}
    \/ flags.concurrency < 1
    \/ ~AllValid(cidrs)
    \/ InvalidServer(flags.dnsServer)

\* no lookup was dispatched and no record was written
NothingDone ==
    /\ collectorPc = "idle"
    /\ sent = 0 /\ jobs = <<>> /\ results = <<>>
    /\ written = <<>> /\ writePc = "idle"

\* C25: under a fatal condition run fails before any lookup is dispatched
\* and before any record is written, and whenever run has failed nothing
\* was dispatched or written; a run without a fatal condition does not
\* fail.
C25_FatalBeforeWork ==
    runPc # "idle" =>
        /\ FatalInput => /\ NothingDone
                         /\ runPc \in {"validate", "parse", "failed"}
        /\ runPc = "failed" => (NothingDone /\ runErr # "" /\ FatalInput)
        /\ runPc = "done" => runErr = ""

\* the results of the lookups of ips, one per address, in any order
OnePerAddress(rs, addrs) ==
    SameElements(rs, [i \in 1..Len(addrs) |-> lookupIP(addrs[i])])

\* C26: once the lookups are dispatched the run cannot fail: whatever
\* they return, no error is set, the collected list holds one result per
\* address, the final write is always possible, and the run ends with its
\* output written; a failed lookup shows only in the Error of its own
\* result.
C26_LookupFailuresNotFatal ==
    /\ runPc = "collect" =>
          /\ runErr = "" /\ ~poolPanic
          /\ collectorPc = "done" =>
                /\ OnePerAddress(results, allIPs)
                /\ WriteOutput(results, RunOptions) # {}
    /\ runPc = "done" =>
          /\ runErr = ""
          /\ OnePerAddress(results, allIPs)
          /\ writePc = "written"
          /\ \E o \in WriteOutput(results, opts) : written = o.written
          /\ (~flags.resolvedOnly /\ ~flags.nxdomainOnly) =>
                (written = <<>>) = (results = <<>>)
    /\ runPc = "failed" => collectorPc = "idle"

\* a run whose two lookups both failed ended with both failures written
C26_Witness ==
    /\ runPc = "done" /\ runErr = ""
    /\ Len(results) = 2
    /\ \A i \in 1..Len(results) : results[i].Error # ""
    /\ Len(written) = 2

\* ------------------------------------- properties of the error entries
\* the results that failed at address ip with error text e
FailedAt(rs, ip, e) ==
    {i \in 1..Len(rs) : rs[i].Error = e /\ rs[i].IP = ip}

\* the entries for the single host ip that carry error text e
ErrorEntriesAt(es, ip, e) ==
    {k \in 1..Len(es) : es[k].Error = e /\ es[k].Network = singleIPNet(ip)}

\* C27: every result with an error has an entry of its own, the single
\* host of its address with its error text and no name (as many entries
\* as failed results, also for neighbouring addresses with the same text
\* and for one address that failed twice), and no entry that covers more
\* than one address carries an error.
C27_ErrorsApart ==
    outPc = "done" =>
        /\ \A i \in 1..Len(results) :
              results[i].Error # "" =>
                 Cardinality(ErrorEntriesAt(consolidated, results[i].IP,
                                            results[i].Error))
                    = Cardinality(FailedAt(results, results[i].IP,
                                           results[i].Error))
        /\ \A k \in 1..Len(consolidated) :
              consolidated[k].Error # "" =>
                 /\ HostBits(consolidated[k].Network) = 0
                 /\ consolidated[k].PTR = <<>>
                 /\ \E i \in 1..Len(results) :
                       /\ results[i].Error = consolidated[k].Error
                       /\ consolidated[k].Network = singleIPNet(results[i].IP)

\* two aligned neighbours failed with the same text and stay two entries
C27_Witness ==
    /\ outPc = "done"
    /\ \E i, j \in 1..Len(results) :
          /\ results[i].IP = FromInt(2, IPv4len)
          /\ results[j].IP = FromInt(3, IPv4len)
          /\ results[i].Error = "timeout" /\ results[j].Error = "timeout"
    /\ Cardinality({k \in 1..Len(consolidated) :
                       consolidated[k].Error = "timeout"}) = 2

\* ----------------------------------------- properties of duplicates
RemoveAt(rs, j) == SubSeq(rs, 1, j - 1) \o SubSeq(rs, j + 1, Len(rs))

\* the positions of rs that hold a second copy of an earlier result that
\* did not fail
Copies(rs) ==
    {j \in 1..Len(rs) : /\ rs[j].Error = ""
                        /\ \E i \in 1..(j - 1) : rs[i] = rs[j]}

\* C28: a second copy of a result without error changes nothing: the
\* list with the copy and the list without it have the same possible
\* outputs, and the output returned is one of them; a list that is
\* nothing but copies of one result gives the one single-host entry of
\* its address.
C28_DuplicatesAbsorbed ==
    outPc = "done" =>
        /\ \A j \in Copies(results) :
              /\ ConsolidateResults(RemoveAt(results, j))
                    = ConsolidateResults(results)
              /\ consolidated \in ConsolidateResults(RemoveAt(results, j))
        /\ (Copies(results) = 2..Len(results) /\ Len(results) >= 2) =>
              /\ Len(consolidated) = 1
              /\ consolidated[1].Network = singleIPNet(results[1].IP)
              /\ consolidated[1].PTR = results[1].PTR

\* a named address seen twice next to its named neighbour: one block
C28_Witness ==
    /\ outPc = "done"
    /\ Len(results) = 3
    /\ Copies(results) # {}
    /\ \A i \in 1..Len(results) : results[i].PTR = HostName
    /\ Len(consolidated) = 1
    /\ HostBits(consolidated[1].Network) = 1

\* ------------------------------------- properties of the output order
DistinctAddresses(rs) ==
    \A i, j \in 1..Len(rs) : i # j => ~IPEqual(rs[i].IP, rs[j].IP)

\* the lists that hold the elements of rs in another order
Rearranged(rs) ==
    {[i \in 1..Len(rs) |-> rs[p[i]]] :
        p \in {q \in [1..Len(rs) -> 1..Len(rs)] :
                  \A i, j \in 1..Len(rs) : i # j => q[i] # q[j]}}

\* C29: for results with pairwise distinct addresses the output is
\* determined by the set of results: whatever the order of the input list,
\* the order in which the maps are visited and the choices of the sort,
\* ConsolidateResults can return one sequence only, the one it returned.
C29_StableOutput ==
    (outPc = "done" /\ DistinctAddresses(results)) =>
        \A rs \in Rearranged(results) :
            ConsolidateResults(rs) = {consolidated}

\* three addresses, one failed, one without a name and one named, in an
\* order that is not the order of the output
C29_Witness ==
    /\ outPc = "done"
    /\ Len(results) = 3 /\ DistinctAddresses(results)
    /\ Len(consolidated) = 3
    /\ results[1].Error # "" /\ results[2].PTR = HostName
    /\ consolidated[1].Network.IP = results[3].IP
    /\ consolidated[3].Network.IP = results[1].IP

====
